---- MODULE Spec2Model ----
(***************************************************************************)
(* Verification model of the PPE polling backend: the parameter validator  *)
(* and calculator (Appendix C constraints) and the hash-based PPE partner  *)
(* assignment.                                                             *)
(*                                                                         *)
(* Python floats are modelled as fixed-point integers: the real x is the   *)
(* integer floor(x * Scale).  Every product and quotient is computed in    *)
(* pieces so that no intermediate value leaves 32 bits.                    *)
(***************************************************************************)
EXTENDS Integers, Sequences, FiniteSets, TLC

\* ------------------------------------------------------------------------
\* Fixed-point arithmetic standing for Python float arithmetic
\* ------------------------------------------------------------------------

\* One unit of the fixed-point representation: the float 1.0.
Scale == 10000

\* A Python int converted to float.
Fix(n) == n * Scale

Max(a, b) == IF a >= b THEN a ELSE b

Min(a, b) == IF a <= b THEN a ELSE b

\* float * float for non-negative operands: floor(a * b / Scale).
Mul(a, b) ==
    LET a1 == a \div Scale
        a0 == a % Scale
        b1 == b \div Scale
        b0 == b % Scale
    IN  a1 * b1 * Scale + a1 * b0 + a0 * b1 + (a0 * b0) \div Scale

\* Signed float * float (the sign is carried apart from the magnitude).
MulS(a, b) ==
    IF (a < 0) = (b < 0)
    THEN Mul(IF a < 0 THEN -a ELSE a, IF b < 0 THEN -b ELSE b)
    ELSE -Mul(IF a < 0 THEN -a ELSE a, IF b < 0 THEN -b ELSE b)

RECURSIVE LongDiv(_, _, _, _)
\* Decimal long division: n more digits of r / b appended to the quotient q.
LongDiv(q, r, b, n) ==
    IF n = 0 THEN q
    ELSE LongDiv(q * 10 + (r * 10) \div b, (r * 10) % b, b, n - 1)

\* float / float for a >= 0, b > 0: floor(a * Scale / b), Scale = 10^4.
Div(a, b) == LongDiv(a \div b, a % b, b, 4)

\* Signed float / float, b # 0.
DivS(a, b) ==
    IF (a < 0) = (b < 0)
    THEN Div(IF a < 0 THEN -a ELSE a, IF b < 0 THEN -b ELSE b)
    ELSE -Div(IF a < 0 THEN -a ELSE a, IF b < 0 THEN -b ELSE b)

RECURSIVE SqrtSearch(_, _, _)
\* Largest r in lo..hi with r*r <= x (lo is known to satisfy it).
SqrtSearch(x, lo, hi) ==
    IF lo >= hi THEN lo
    ELSE LET mid == (lo + hi + 1) \div 2
         IN  IF Mul(mid, mid) <= x
             THEN SqrtSearch(x, mid, hi)
             ELSE SqrtSearch(x, lo, mid - 1)

\* math.sqrt for x >= 0.
Sqrt(x) == SqrtSearch(x, 0, Min(Max(x, Scale), 40 * Scale))

\* math.log on the integers the model uses, floor(ln(m) * Scale).
LnTable ==
    [m \in {1, 2, 3, 5, 9, 10, 20, 50, 200, 1000, 10000} |->
        CASE m = 1 -> 0
          [] m = 2 -> 6931
          [] m = 3 -> 10986
          [] m = 5 -> 16094
          [] m = 9 -> 21972
          [] m = 10 -> 23025
          [] m = 20 -> 29957
          [] m = 50 -> 39120
          [] m = 200 -> 52983
          [] m = 1000 -> 69077
          [] m = 10000 -> 92103]

Ln(m) == LnTable[m]

\* ------------------------------------------------------------------------
\* ParameterConstraints (models/poll_parameters.py)
\* ------------------------------------------------------------------------

\* Optional[float]: <<>> is None, <<v>> is the value v.
None == <<>>

Some(v) == <<v>>

\* 0.5, the constant of (1/2 - eta_v).
Half == Scale \div 2

\* The pydantic Field bounds of ParameterConstraints: m > 0, d > 0,
\* 20 <= kappa <= 128, 0 < eta_v < 0.1, 0 < eta_e < 0.5.
FieldsValid(m, d, kappa, eta_v, eta_e) ==
    /\ m > 0
    /\ d > 0
    /\ kappa >= 20 /\ kappa <= 128
    /\ eta_v > 0 /\ eta_v < Scale \div 10
    /\ eta_e > 0 /\ eta_e < Half

\* validator calculate_p: p defaults to d / m.
calculate_p(v, m, d) == IF v = None THEN Some(Div(d, Fix(m))) ELSE v

\* validator calculate_b: b defaults to sqrt(d(1/2 - eta_v) / (2 ln m - 2))
\* when m > 1 and the denominator is positive, and stays None otherwise.
calculate_b(v, m, d, eta_v) ==
    IF v = None /\ m > 1 /\ 2 * Ln(m) - Fix(2) > 0
    THEN Some(Sqrt(Div(Mul(d, Half - eta_v), 2 * Ln(m) - Fix(2))))
    ELSE v

\* ParameterConstraints(m=, d=, kappa=, eta_v=, eta_e=, p=): the validated object.
ParameterConstraints(m, d, kappa, eta_v, eta_e, p) ==
    [m |-> m, d |-> d, kappa |-> kappa, eta_v |-> eta_v, eta_e |-> eta_e,
     p |-> calculate_p(p, m, d), b |-> calculate_b(None, m, d, eta_v)]

\* ------------------------------------------------------------------------
\* ParameterValidator (services/parameter_validator.py)
\* ------------------------------------------------------------------------

\* What one _check_constraint_i returns: (satisfied, error, warning, calculated),
\* or raised = TRUE when the check ends in an exception.
CheckResult(sat, err, warn, calc) ==
    [raised |-> FALSE, satisfied |-> sat, error |-> err, warning |-> warn,
     calculated |-> calc]

CheckRaised ==
    [raised |-> TRUE, satisfied |-> FALSE, error |-> None, warning |-> None,
     calculated |-> <<>>]

NoCalc == <<>>

\* Constraint 1: m >= kappa + (eta_v m + 2) ln(m) + eta_v m.
check_constraint_1(params) ==
    LET m == params.m
        rhs == Fix(params.kappa) + Mul(params.eta_v * m + Fix(2), Ln(m))
               + params.eta_v * m
        satisfied == Fix(m) >= rhs
    IN  CheckResult(
            satisfied,
            IF ~satisfied THEN Some("Insufficient participants") ELSE None,
            IF satisfied /\ Fix(m) < Mul(rhs, (Scale * 12) \div 10)
            THEN Some("Participants barely satisfy minimum") ELSE None,
            [k \in {"constraint_1_minimum_m", "constraint_1_margin"} |->
                IF k = "constraint_1_minimum_m" THEN rhs ELSE Fix(m) - rhs])

\* Constraint 2 with the "too low" error left out: p < d/m clears the flag silently.
check_constraint_2_NoLowError(params) ==
    LET d == params.d
        m == params.m
        p == IF params.p = None \/ params.p = Some(0)
             THEN Div(d, Fix(m)) ELSE params.p[1]
        lower_bound == Div(d, Fix(m))
        upper_bound == Scale
        satisfied == lower_bound <= p /\ p <= upper_bound
    IN  CheckResult(
            satisfied,
            IF p > upper_bound THEN Some("Edge probability too high") ELSE None,
            None,
            [k \in {"constraint_2_p", "constraint_2_lower_bound",
                    "constraint_2_upper_bound"} |->
                IF k = "constraint_2_p" THEN p
                ELSE IF k = "constraint_2_lower_bound" THEN lower_bound
                ELSE upper_bound])

\* Constraint 2: d/m <= p <= 1.
check_constraint_2(params) ==
    LET d == params.d
        m == params.m
        p == IF params.p = None \/ params.p = Some(0)
             THEN Div(d, Fix(m)) ELSE params.p[1]
        lower_bound == Div(d, Fix(m))
        upper_bound == Scale
        satisfied == lower_bound <= p /\ p <= upper_bound
    IN  CheckResult(
            satisfied,
            IF p < lower_bound THEN Some("Edge probability too low")
            ELSE IF p > upper_bound THEN Some("Edge probability too high")
            ELSE None,
            IF p >= lower_bound /\ p <= upper_bound /\ p > (Scale * 9) \div 10
            THEN Some("Edge probability very high") ELSE None,
            [k \in {"constraint_2_p", "constraint_2_lower_bound",
                    "constraint_2_upper_bound"} |->
                IF k = "constraint_2_p" THEN p
                ELSE IF k = "constraint_2_lower_bound" THEN lower_bound
                ELSE upper_bound])

\* Constraint 3: b >= 1, b = sqrt(d(1/2 - eta_v) / (2 ln(m) - 2)).
check_constraint_3(params) ==
    LET d == params.d
        m == params.m
        eta_v == params.eta_v
        denominator == 2 * Ln(m) - Fix(2)
        numerator == MulS(d, Half - eta_v)
        b == Sqrt(Div(numerator, denominator))
        satisfied == b >= Scale
        required_d == DivS(denominator, Half - eta_v)
    IN  IF m <= 1 THEN CheckResult(FALSE, Some("m must be > 1"), None, NoCalc)
        ELSE IF denominator <= 0
        THEN CheckResult(FALSE, Some("Invalid m for expansion calculation"), None, NoCalc)
        ELSE IF numerator <= 0
        THEN CheckResult(FALSE, Some("Invalid parameters"), None, NoCalc)
        ELSE CheckResult(
            satisfied,
            IF ~satisfied THEN Some("Insufficient degree for expansion") ELSE None,
            IF satisfied /\ b < (Scale * 12) \div 10
            THEN Some("Expansion parameter barely sufficient") ELSE None,
            [k \in {"constraint_3_b", "constraint_3_required_d"} |->
                IF k = "constraint_3_b" THEN b
                ELSE IF ~satisfied THEN required_d ELSE d])

\* Constraint 4 that passes silently when b gives no positive bound (b <= 1).
check_constraint_4_SkipsLowB(params) ==
    LET d == params.d
        m == params.m
        eta_v == params.eta_v
        eta_e == params.eta_e
        denominator == 2 * Ln(m) - Fix(2)
        b == Sqrt(DivS(MulS(d, Half - eta_v), denominator))
        upper_bound == DivS(MulS(b - Scale, Half - eta_v), b)
        satisfied == eta_e < upper_bound
    IN  IF denominator <= 0
        THEN CheckResult(FALSE, Some("Invalid m for constraint 4"), None, NoCalc)
        ELSE IF b <= Scale
        THEN CheckResult(TRUE, None, None, NoCalc)
        ELSE CheckResult(
            satisfied,
            IF ~satisfied THEN Some("Failed PPE threshold too high") ELSE None,
            None,
            [k \in {"constraint_4_eta_e_upper_bound", "constraint_4_margin"} |->
                IF k = "constraint_4_eta_e_upper_bound" THEN upper_bound
                ELSE upper_bound - eta_e])

\* Constraint 4 without its guard on the denominator: math.sqrt meets a negative
\* radicand (m = 2) and raises.
check_constraint_4_NoGuard(params) ==
    LET d == params.d
        m == params.m
        eta_v == params.eta_v
        eta_e == params.eta_e
        denominator == 2 * Ln(m) - Fix(2)
        radicand == DivS(MulS(d, Half - eta_v), denominator)
        b == Sqrt(radicand)
        upper_bound == DivS(MulS(b - Scale, Half - eta_v), b)
        satisfied == eta_e < upper_bound
    IN  IF radicand < 0 THEN CheckRaised
        ELSE IF b < Scale
        THEN CheckResult(FALSE, Some("b < 1, cannot check constraint 4"), None, NoCalc)
        ELSE CheckResult(
            satisfied,
            IF ~satisfied THEN Some("Failed PPE threshold too high") ELSE None,
            None,
            [k \in {"constraint_4_eta_e_upper_bound", "constraint_4_margin"} |->
                IF k = "constraint_4_eta_e_upper_bound" THEN upper_bound
                ELSE upper_bound - eta_e])

\* Constraint 4: eta_e < (b - 1)(1/2 - eta_v) / b.
check_constraint_4(params) ==
    LET d == params.d
        m == params.m
        eta_v == params.eta_v
        eta_e == params.eta_e
        denominator == 2 * Ln(m) - Fix(2)
        radicand == DivS(MulS(d, Half - eta_v), denominator)
        b == Sqrt(radicand)
        upper_bound == DivS(MulS(b - Scale, Half - eta_v), b)
        satisfied == eta_e < upper_bound
    IN  IF denominator <= 0
        THEN CheckResult(FALSE, Some("Invalid m for constraint 4"), None, NoCalc)
        ELSE IF radicand < 0 THEN CheckRaised
        ELSE IF b < Scale
        THEN CheckResult(FALSE, Some("b < 1, cannot check constraint 4"), None, NoCalc)
        ELSE CheckResult(
            satisfied,
            IF ~satisfied THEN Some("Failed PPE threshold too high") ELSE None,
            IF satisfied /\ eta_e > Mul(upper_bound, (Scale * 9) \div 10)
            THEN Some("eta_e close to limit") ELSE None,
            [k \in {"constraint_4_eta_e_upper_bound", "constraint_4_margin"} |->
                IF k = "constraint_4_eta_e_upper_bound" THEN upper_bound
                ELSE upper_bound - eta_e])

\* Constraint 5: d >= 2 ln(m) / (1/2 - eta_v).
check_constraint_5(params) ==
    LET d == params.d
        m == params.m
        eta_v == params.eta_v
        denominator == Half - eta_v
        minimum_d == Div(2 * Ln(m), denominator)
        satisfied == d >= minimum_d
    IN  IF m <= 1 THEN CheckResult(FALSE, Some("m must be > 1"), None, NoCalc)
        ELSE IF denominator <= 0
        THEN CheckResult(FALSE, Some("Invalid eta_v (must be < 0.5)"), None, NoCalc)
        ELSE CheckResult(
            satisfied,
            IF ~satisfied THEN Some("Degree too low") ELSE None,
            IF satisfied /\ d < Mul(minimum_d, (Scale * 12) \div 10)
            THEN Some("Degree barely above minimum") ELSE None,
            [k \in {"constraint_5_minimum_d", "constraint_5_margin"} |->
                IF k = "constraint_5_minimum_d" THEN minimum_d ELSE d - minimum_d])

\* Constraint 6: C* >= 1 for a typical adversary with a = 0.1 m d.
check_constraint_6(params) ==
    LET d == params.d
        m == params.m
        a_typical == Mul(Mul(Scale \div 10, Fix(m)), d)
        a_per_m == Div(a_typical, Fix(m))
        c_star_approximate == Div(d, a_per_m)
        satisfied == c_star_approximate >= Scale
    IN  IF a_typical = 0
        THEN CheckResult(FALSE, Some("Invalid parameters for constraint 6"), None, NoCalc)
        ELSE IF a_per_m = 0 THEN CheckRaised
        ELSE CheckResult(
            satisfied,
            IF ~satisfied THEN Some("Invalid Sybil bound") ELSE None,
            None,
            [k \in {"constraint_6_c_star", "constraint_6_typical_a"} |->
                IF k = "constraint_6_c_star" THEN c_star_approximate ELSE a_typical])

\* The list `checks` of validate_all, by position.
CheckConstraint(i, params) ==
    CASE i = 1 -> check_constraint_1(params)
      [] i = 2 -> check_constraint_2(params)
      [] i = 3 -> check_constraint_3(params)
      [] i = 4 -> check_constraint_4(params)
      [] i = 5 -> check_constraint_5(params)
      [] i = 6 -> check_constraint_6(params)

NumChecks == 6

\* _estimate_sybil_resistance: 100 - (a/d)/m * 100 with a = 0.1 m d, clamped to [0, 100].
estimate_sybil_resistance(params) ==
    LET a == Mul(Mul(Scale \div 10, Fix(params.m)), params.d)
        max_sybil == Div(a, params.d)
        sybil_percentage == Mul(Div(max_sybil, Fix(params.m)), Fix(100))
    IN  Max(0, Min(Fix(100), Fix(100) - sybil_percentage))

\* _estimate_completion_rate: 0.95 * max(0.7, 1 - d/1000) as a percentage, clamped.
estimate_completion_rate(params) ==
    LET difficulty_factor == Scale - Div(params.d, Fix(1000))
        completion_rate == Mul((Scale * 95) \div 100,
                               Max((Scale * 7) \div 10, difficulty_factor))
    IN  Max(0, Min(Fix(100), Mul(completion_rate, Fix(100))))

\* ParameterValidationResult(valid=True, calculated_values={}): every flag defaults
\* to False.  `checked` lists the constraints whose flag validate_all has set.
NewValidationResult ==
    [raised |-> FALSE, valid |-> TRUE, errors |-> <<>>, warnings |-> <<>>,
     satisfied |-> [i \in 1..NumChecks |-> FALSE], checked |-> <<>>,
     calculated_values |-> <<>>,
     estimated_sybil_resistance |-> None, estimated_completion_rate |-> None]

\* The body of validate_all's loop for check i with outcome c: set the flag,
\* append the error (and clear valid) and the warning, merge the calculated values.
RecordCheck(result, i, c) ==
    [result EXCEPT
        !.satisfied[i] = c.satisfied,
        !.checked = Append(@, i),
        !.errors = IF c.error # None THEN Append(@, <<i, c.error[1]>>) ELSE @,
        !.valid = IF c.error # None THEN FALSE ELSE @,
        !.warnings = IF c.warning # None THEN Append(@, <<i, c.warning[1]>>) ELSE @,
        !.calculated_values = IF c.calculated = NoCalc THEN @
                              ELSE IF @ = NoCalc THEN c.calculated
                              ELSE c.calculated @@ @]

RECURSIVE ValidateLoop(_, _, _)
\* A loop that stops at the first check that reports an error.
ValidateLoopShortCircuit(result, params, i) ==
    IF i > NumChecks \/ ~result.valid THEN result
    ELSE LET c == CheckConstraint(i, params)
         IN  IF c.raised THEN [result EXCEPT !.raised = TRUE]
             ELSE ValidateLoop(RecordCheck(result, i, c), params, i + 1)

\* for i, check in enumerate(checks, 1): every check runs, whatever the earlier
\* ones returned; an exception in a check leaves validate_all at once.
ValidateLoop(result, params, i) ==
    IF i > NumChecks THEN result
    ELSE LET c == CheckConstraint(i, params)
         IN  IF c.raised THEN [result EXCEPT !.raised = TRUE]
             ELSE ValidateLoop(RecordCheck(result, i, c), params, i + 1)

\* validate_all: the loop over the six checks, then the two estimates when valid.
validate_all(params) ==
    LET r == ValidateLoop(NewValidationResult, params, 1)
    IN  IF ~r.raised /\ r.valid
        THEN [r EXCEPT
                !.estimated_sybil_resistance = Some(estimate_sybil_resistance(params)),
                !.estimated_completion_rate = Some(estimate_completion_rate(params))]
        ELSE r

\* ------------------------------------------------------------------------
\* ParameterCalculator (services/parameter_calculator.py)
\* ------------------------------------------------------------------------

\* What a calculator entry point gives back: a ParameterConstraints, or an exception.
Returned(params) == [raised |-> FALSE, params |-> Some(params)]

Raised == [raised |-> TRUE, params |-> None]

\* The security levels calculate_for_security_level recognises.
SecurityLevels == {"high", "medium", "low"}

\* Base (d, kappa, eta_v, eta_e) of each security level.
TierBase(security_level) ==
    CASE security_level = "high" ->
            [d |-> Fix(80), kappa |-> 80, eta_v |-> Scale \div 100, eta_e |-> Scale \div 10]
      [] security_level = "medium" ->
            [d |-> Fix(60), kappa |-> 40, eta_v |-> (Scale * 25) \div 1000,
             eta_e |-> (Scale * 125) \div 1000]
      [] security_level = "low" ->
            [d |-> Fix(40), kappa |-> 20, eta_v |-> (Scale * 5) \div 100,
             eta_e |-> (Scale * 15) \div 100]

\* custom_constraints: a map with optional keys d, kappa, eta_v, eta_e.
NoCustom == [d |-> None, kappa |-> None, eta_v |-> None, eta_e |-> None]

\* custom_constraints.get(key, default)
Get(v, default) == IF v = None THEN default ELSE v[1]

\* 1.1 and 0.9, the 10% safety margins.
Margin110 == (Scale * 11) \div 10

Margin90 == (Scale * 9) \div 10

\* The arithmetic of calculate_for_security_level after the base values are fixed.
CalculateFrom(m, base_d, base_kappa, base_eta_v, base_eta_e) ==
    LET min_d_constraint_5 == DivS(2 * Ln(m), Half - base_eta_v)
        d5 == Max(base_d, MulS(min_d_constraint_5, Margin110))
        denominator == 2 * Ln(m) - Fix(2)
        min_d_constraint_3 == DivS(denominator, Half - base_eta_v)
        d == IF denominator > 0 THEN Max(d5, MulS(min_d_constraint_3, Margin110)) ELSE d5
        radicand == DivS(MulS(d, Half - base_eta_v), denominator)
        b == IF denominator > 0 THEN Sqrt(radicand) ELSE Scale
        max_eta_e == Div(Mul(b - Scale, Half - base_eta_v), b)
        eta_e == IF b > Scale THEN Min(base_eta_e, Mul(max_eta_e, Margin90)) ELSE base_eta_e
    IN  IF Half - base_eta_v = 0 THEN Raised
        ELSE IF denominator > 0 /\ radicand < 0 THEN Raised
        ELSE IF ~FieldsValid(m, d, base_kappa, base_eta_v, eta_e) THEN Raised
        ELSE Returned(ParameterConstraints(m, d, base_kappa, base_eta_v, eta_e, None))

\* A calculator that falls back to the medium level for a name it does not know.
calculate_for_security_level_Fallback(m, security_level, custom) ==
    IF m < 10 THEN Raised
    ELSE LET base == TierBase(IF security_level \in SecurityLevels
                              THEN security_level ELSE "medium")
         IN  CalculateFrom(m, Get(custom.d, base.d), Get(custom.kappa, base.kappa),
                           Get(custom.eta_v, base.eta_v), Get(custom.eta_e, base.eta_e))

\* calculate_for_security_level(m, security_level, custom_constraints)
calculate_for_security_level(m, security_level, custom) ==
    IF m < 10 THEN Raised
    ELSE IF security_level \notin SecurityLevels THEN Raised
    ELSE LET base == TierBase(security_level)
         IN  CalculateFrom(m, Get(custom.d, base.d), Get(custom.kappa, base.kappa),
                           Get(custom.eta_v, base.eta_v), Get(custom.eta_e, base.eta_e))

\* d = min(max_ppes_per_user, 100)
EffortCap == 100

\* kappa and eta_v of optimize_for_user_effort, and its eta_e when b <= 1.
StandardKappa == 40

StandardEtaV == (Scale * 25) \div 1000

StandardEtaE == (Scale * 125) \div 1000

\* An optimizer that keeps the caller's cap whatever constraint 5 requires.
optimize_for_user_effort_CapOnly(m, max_ppes_per_user) ==
    LET d == Fix(Min(max_ppes_per_user, EffortCap))
        denominator == 2 * Ln(m) - Fix(2)
        b == IF denominator > 0
             THEN Sqrt(Div(Mul(d, Half - StandardEtaV), denominator)) ELSE Scale
        eta_e == IF b > Scale
                 THEN Mul(Div(Mul(b - Scale, Half - StandardEtaV), b), Margin90)
                 ELSE StandardEtaE
    IN  IF m <= 0 THEN Raised
        ELSE IF ~FieldsValid(m, d, StandardKappa, StandardEtaV, eta_e) THEN Raised
        ELSE Returned(ParameterConstraints(m, d, StandardKappa, StandardEtaV, eta_e, None))

\* optimize_for_user_effort(m, max_ppes_per_user): math.log raises for m <= 0.
optimize_for_user_effort(m, max_ppes_per_user) ==
    LET d0 == Fix(Min(max_ppes_per_user, EffortCap))
        min_d == Div(2 * Ln(m), Half - StandardEtaV)
        d == IF d0 < min_d THEN Mul(min_d, Margin110) ELSE d0
        denominator == 2 * Ln(m) - Fix(2)
        b == IF denominator > 0
             THEN Sqrt(Div(Mul(d, Half - StandardEtaV), denominator)) ELSE Scale
        eta_e == IF b > Scale
                 THEN Mul(Div(Mul(b - Scale, Half - StandardEtaV), b), Margin90)
                 ELSE StandardEtaE
    IN  IF m <= 0 THEN Raised
        ELSE IF ~FieldsValid(m, d, StandardKappa, StandardEtaV, eta_e) THEN Raised
        ELSE Returned(ParameterConstraints(m, d, StandardKappa, StandardEtaV, eta_e, None))

\* ------------------------------------------------------------------------
\* PPEAssignmentService (services/ppe_assignment_service.py)
\* ------------------------------------------------------------------------

\* hashlib.sha256(f"{sid}:{min_idx}:{max_idx}") read as a fraction of [0, 1).
\* SHA-256 is a fixed function of its input string and treats the two indices
\* differently; a fixed polynomial mix stands for it.
HashValue(sid, first, second) ==
    LET x == sid * 73 + first * 31 + second * 17 + 11
    IN  (((x * x * x + 7 * x) % 9973) * Scale) \div 9973

\* The indices hashed for the pair (i, j) in the order the caller met them.
EdgeKeyAsGiven(user_index, j) == <<user_index, j>>

\* min_idx = min(user_index, j); max_idx = max(user_index, j)
EdgeKey(user_index, j) == <<Min(user_index, j), Max(user_index, j)>>

\* One iteration of compute_neighborhood's loop: j joins the neighbors iff it is
\* not user_index itself and H(sid, min, max) < p.
NeighborStep(neighbors, user_index, j, edge_probability, sid) ==
    IF user_index = j THEN neighbors
    ELSE LET key == EdgeKey(user_index, j)
         IN  IF HashValue(sid, key[1], key[2]) < edge_probability
             THEN neighbors \cup {j}
             ELSE neighbors

RECURSIVE NeighborLoop(_, _, _, _, _, _)
\* for j in all_user_indices, from position pos on.
NeighborLoop(neighbors, pos, user_index, all_user_indices, edge_probability, sid) ==
    IF pos > Len(all_user_indices) THEN neighbors
    ELSE NeighborLoop(
            NeighborStep(neighbors, user_index, all_user_indices[pos], edge_probability, sid),
            pos + 1, user_index, all_user_indices, edge_probability, sid)

\* compute_neighborhood(user_index, all_user_indices, edge_probability, poll_session_id)
compute_neighborhood(user_index, all_user_indices, edge_probability, sid) ==
    NeighborLoop({}, 1, user_index, all_user_indices, edge_probability, sid)

\* compute_edge_probability: p = min(expected_degree / m, 1.0), and 0.0 when m = 0.
compute_edge_probability(expected_degree, m) ==
    IF m = 0 THEN 0 ELSE Min(Div(Fix(expected_degree), Fix(m)), Scale)

\* list(range(len(users)))
IndexList(n) == [k \in 1..n |-> k - 1]

\* CertificationState(user_id, poll_id): the column defaults.
NewCertificationState ==
    [state |-> "awaiting_assignments", required_ppes |-> 0, completed_ppes |-> 0,
     failed_ppes |-> 0, max_allowed_failures |-> 0, assigned_ppe_partners |-> {},
     completed_ppe_ids |-> {}, failed_ppe_ids |-> {}, collected_signatures |-> {},
     is_certified |-> FALSE, is_excluded |-> FALSE, has_voted |-> FALSE]

\* The loop body of assign_ppe_partners for one user: the row is created if it is
\* missing, then partners, required_ppes, max_allowed_failures and state are set.
AssignedState(old, partner_ids, eta_e) ==
    [(IF old = None THEN NewCertificationState ELSE old[1]) EXCEPT
        !.assigned_ppe_partners = partner_ids,
        !.required_ppes = Cardinality(partner_ids),
        !.max_allowed_failures = (eta_e * Cardinality(partner_ids)) \div Scale,
        !.state = "certifying"]

\* ------------------------------------------------------------------------
\* State
\* ------------------------------------------------------------------------

VARIABLES
    pstate,       \* "idle", "built" (a ParameterConstraints exists), "failed", "validated"
    call,         \* the call that produced params: its operation and arguments
    params,       \* None or Some(ParameterConstraints)
    result,       \* None or Some(ParameterValidationResult) of validate_all(params)
    poll,         \* the Poll row: session_id, expected_degree, eta_e, phase
    nUsers,       \* number of User rows of the poll; registration_order = 0..nUsers-1
    cert,         \* CertificationState rows: user index -> None or Some(row)
    assignments,  \* None or Some(the map assign_ppe_partners returned last)
    calls,        \* on-demand compute_neighborhood calls in progress, by caller
    rng,          \* state of the process-wide generator of the random module
    draws,        \* number of values other code has drawn from that generator
    generated,    \* the generate_ideal_graph calls made so far, with what they returned
    report,       \* None or Some(the last validate_graph_properties call and its outcome)
    bounds,       \* the compute_sybil_bound calls made so far, with what they returned
    metrics,      \* None or Some(the last compute_all_metrics call and its outcome)
    expansion,    \* None or Some(the vertex or edge expansion call made and its outcome)
    spectral,     \* None or Some(the compute_spectral_gap call made and its outcome)
    graph_cache,      \* graph_service._graph_cache[poll_id]: None or Some(graph)
    properties_cache, \* graph_service._properties_cache[poll_id]: None or Some(dict)
    threads,      \* each thread's position in a graph_service call, and its locals
    observed,     \* what get_graph_properties read from the cache, with the graph then cached
    recorded,     \* the users for whom record_vote has returned True
    last_call,    \* None or Some(the state machine call just made and its outcome)
    polls_db,     \* _polls_db[poll_id]: the Poll of poll_service
    poll_result,   \* None or Some(the poll_service call just made and its outcome)
    active_challenges,  \* captcha_utils._active_challenges: challenge id -> challenge
    issued,  \* number of challenges created so far; their ids are 1..issued
    clock,  \* datetime.now(), in minutes
    attempted,  \* the challenge ids validate_challenge has been called with
    validation,  \* None or Some(the validate_challenge call just made and its answer)
    vote_table,  \* rows of the votes table, in the order of their commit
    requests  \* the cast_vote requests in flight: user, position, response

paramVars == <<pstate, call, params, result>>

assignVars == <<poll, nUsers, cert, assignments, calls>>

graphVars == <<rng, draws, generated, report>>

sybilVars == <<bounds, metrics>>

expansionVars == <<expansion, spectral>>

cacheVars == <<graph_cache, properties_cache, threads, observed>>

machineVars == <<recorded, last_call>>

legacyVars == <<polls_db, poll_result>>

registrationVars == <<active_challenges, issued, clock, attempted, validation>>

voteVars == <<vote_table, requests>>

\* What each part of the model leaves alone.
outsideParams == <<assignVars, graphVars, sybilVars, expansionVars, cacheVars, machineVars,
      legacyVars,
      registrationVars,
      voteVars>>

outsideAssign == <<paramVars, graphVars, sybilVars, expansionVars, cacheVars, machineVars,
      legacyVars,
      registrationVars,
      voteVars>>

outsideGraph == <<paramVars, assignVars, sybilVars, expansionVars, cacheVars, machineVars,
      legacyVars,
      registrationVars,
      voteVars>>

outsideSybil == <<paramVars, assignVars, graphVars, expansionVars, cacheVars, machineVars,
      legacyVars,
      registrationVars,
      voteVars>>

outsideCache ==
    <<draws, generated, report, paramVars, assignVars, sybilVars, expansionVars,
      machineVars,
      legacyVars,
      registrationVars,
      voteVars>>

\* The two caches and what was read from them.
cacheStore == <<graph_cache, properties_cache, observed>>

outsideExpansion ==
    <<paramVars, assignVars, graphVars, sybilVars, cacheVars, machineVars,
      legacyVars,
      registrationVars,
      voteVars>>

outsideLegacy ==
    <<paramVars, assignVars, graphVars, sybilVars, expansionVars, cacheVars,
      machineVars,
      registrationVars,
      voteVars>>

outsideRegistration ==
    <<paramVars, assignVars, graphVars, sybilVars, expansionVars, cacheVars,
      machineVars, legacyVars,
      voteVars>>

\* cast_vote works on the certification rows and the votes table.
outsideVote ==
    <<poll, nUsers, assignments, calls, paramVars, graphVars, sybilVars, expansionVars,
      cacheVars, machineVars, legacyVars, registrationVars>>

\* The state machine works on the poll's rows; everything else it leaves alone.
outsideMachine ==
    <<assignments, calls, paramVars, graphVars, sybilVars, expansionVars, cacheVars,
      legacyVars,
      registrationVars,
      voteVars>>

vars == <<pstate, call, params, result, poll, nUsers, cert, assignments, calls,
          rng, draws, generated, report, bounds, metrics, expansion, spectral,
          graph_cache, properties_cache, threads, observed, recorded, last_call,
          polls_db, poll_result,
          active_challenges, issued, clock, attempted, validation,
          vote_table, requests>>

\* ------------------------------------------------------------------------
\* Inputs of the parameter operations
\* ------------------------------------------------------------------------

CalcParticipants == {5, 9, 10, 20, 50, 200, 1000, 10000}

CalcLevels == SecurityLevels \cup {"custom", "invalid"}

CalcCustoms ==
    {NoCustom,
     [NoCustom EXCEPT !.d = Some(Fix(20))],
     [NoCustom EXCEPT !.kappa = Some(128), !.eta_e = Some(Scale \div 5)],
     [NoCustom EXCEPT !.eta_v = Some(Scale \div 5)]}

OptParticipants == {0, 1, 2, 3, 20, 1000, 10000}

OptCaps == {-5, 0, 1, 10, 30, 50, 100, 150}

NewParticipants == {0, 1, 2, 3, 10, 20, 50, 1000}

NewKappas == {10, 20, 40}

NewEtaVs == {Scale \div 100, (Scale * 5) \div 100, Scale \div 5}

NewEtaEs == {(Scale * 5) \div 100, (Scale * 125) \div 1000, (Scale * 45) \div 100}

NewPs == {None, Some(0), Some(5), Some(Half), Some(Fix(2))}

\* Degrees tried with (m, eta_v): fixed ones, and for m > 2 the two floats around
\* the degree at which b is exactly 1.
NewDegrees(m, eta_v) ==
    {0, Half, Fix(5), Fix(30), Fix(60), Fix(100)}
    \cup (IF m > 2 /\ eta_v < Half
          THEN {Div(2 * Ln(m) - Fix(2), Half - eta_v),
                Div(2 * Ln(m) - Fix(2), Half - eta_v) + 1}
          ELSE {})

CallRecord(op, m, level, custom, cap) ==
    [op |-> op, m |-> m, level |-> level, custom |-> custom, cap |-> cap]

NoCall == CallRecord("none", 0, "", NoCustom, 0)

\* ------------------------------------------------------------------------
\* Operations
\* ------------------------------------------------------------------------

InitParams ==
    /\ pstate = "idle"
    /\ call = NoCall
    /\ params = None
    /\ result = None

\* A caller runs calculate_for_security_level(m, security_level, custom_constraints).
Calculate(m, level, custom) ==
    /\ pstate = "idle"
    /\ LET r == calculate_for_security_level(m, level, custom)
       IN  /\ pstate' = IF r.raised THEN "failed" ELSE "built"
           /\ params' = r.params
    /\ call' = CallRecord("calculate", m, level, custom, 0)
    /\ UNCHANGED <<result, outsideParams>>

\* A caller runs optimize_for_user_effort(m, max_ppes_per_user).
Optimize(m, cap) ==
    /\ pstate = "idle"
    /\ LET r == optimize_for_user_effort(m, cap)
       IN  /\ pstate' = IF r.raised THEN "failed" ELSE "built"
           /\ params' = r.params
    /\ call' = CallRecord("optimize", m, "", NoCustom, cap)
    /\ UNCHANGED <<result, outsideParams>>

\* A caller builds ParameterConstraints(...) itself; pydantic rejects out-of-range fields.
Construct(m, d, kappa, eta_v, eta_e, p) ==
    /\ pstate = "idle"
    /\ IF FieldsValid(m, d, kappa, eta_v, eta_e)
       THEN /\ pstate' = "built"
            /\ params' = Some(ParameterConstraints(m, d, kappa, eta_v, eta_e, p))
       ELSE /\ pstate' = "failed"
            /\ params' = None
    /\ call' = CallRecord("construct", m, "", NoCustom, 0)
    /\ UNCHANGED <<result, outsideParams>>

\* validate_all(params)
Validate ==
    /\ pstate = "built"
    /\ result' = Some(validate_all(params[1]))
    /\ pstate' = "validated"
    /\ UNCHANGED <<call, params, outsideParams>>

NextParams ==
    \/ \E m \in CalcParticipants, level \in CalcLevels, custom \in CalcCustoms :
            Calculate(m, level, custom)
    \/ \E m \in OptParticipants, cap \in OptCaps : Optimize(m, cap)
    \/ \E m \in NewParticipants, kappa \in NewKappas, eta_v \in NewEtaVs,
          eta_e \in NewEtaEs, p \in NewPs :
            \E d \in NewDegrees(m, eta_v) : Construct(m, d, kappa, eta_v, eta_e, p)
    \/ Validate

\* ------------------------------------------------------------------------
\* PPE partner assignment: state and operations
\* ------------------------------------------------------------------------

\* Most users registered in a poll.
MaxUsers == 3

\* Most compute_neighborhood calls in progress at once.
MaxCalls == 2

Sessions == {2, 3}

\* Poll.expected_degree: small degrees, and the column default.
ExpectedDegrees == {1, 2, 60}

\* Poll.eta_e: the column default 0.125.
PollEtaEs == {(Scale * 125) \div 1000}

IdleCall == [status |-> "idle", user_index |-> 0, pos |-> 0, neighbors |-> {}]

NoPoll == [session_id |-> 0, expected_degree |-> 0, eta_e |-> 0, phase |-> "setup"]

\* A poll in its registration phase with nUsers registered users and no
\* certification state yet.
InitAssign ==
    /\ \E sid \in Sessions, d \in ExpectedDegrees, e \in PollEtaEs :
            poll = [session_id |-> sid, expected_degree |-> d, eta_e |-> e,
                    phase |-> "registration"]
    /\ nUsers \in 0..MaxUsers
    /\ cert = [u \in 0..(nUsers - 1) |-> None]
    /\ assignments = None
    /\ calls = [c \in 1..MaxCalls |-> IdleCall]

\* A set kept on the service and shared by the calls in progress.
SharedNeighbors(others) == UNION {others[c].neighbors : c \in DOMAIN others}

\* neighbors = set(): each call starts from its own empty set.
FreshNeighbors(others) == {}

\* Caller c enters compute_neighborhood(i, list(range(m)), p, session_id).
StartNeighborhood(c, i) ==
    /\ calls[c].status = "idle"
    /\ i \in 0..(nUsers - 1)
    /\ calls' = [calls EXCEPT ![c] =
            [status |-> "running", user_index |-> i, pos |-> 1,
             neighbors |-> FreshNeighbors(calls)]]
    /\ UNCHANGED <<outsideAssign, poll, nUsers, cert, assignments>>

\* Caller c runs one iteration of the loop, or returns when the list is exhausted.
StepNeighborhood(c) ==
    /\ calls[c].status = "running"
    /\ LET k == calls[c]
           all_user_indices == IndexList(nUsers)
       IN  IF k.pos > Len(all_user_indices)
           THEN calls' = [calls EXCEPT ![c].status = "done"]
           ELSE calls' = [calls EXCEPT
                    ![c].neighbors = NeighborStep(k.neighbors, k.user_index,
                                        all_user_indices[k.pos],
                                        compute_edge_probability(poll.expected_degree, nUsers),
                                        poll.session_id),
                    ![c].pos = k.pos + 1]
    /\ UNCHANGED <<outsideAssign, poll, nUsers, cert, assignments>>

\* assign_ppe_partners(poll_id): every user's neighborhood in one batch, written to
\* the certification states; the poll moves to CERTIFICATION if it was in REGISTRATION.
AssignPPEPartners ==
    /\ nUsers > 0
    /\ LET p == compute_edge_probability(poll.expected_degree, nUsers)
           batch == [u \in 0..(nUsers - 1) |->
                        compute_neighborhood(u, IndexList(nUsers), p, poll.session_id)]
       IN  /\ assignments' = Some(batch)
           /\ cert' = [u \in 0..(nUsers - 1) |->
                        Some(AssignedState(cert[u], batch[u], poll.eta_e))]
    /\ poll' = [poll EXCEPT !.phase = IF @ = "registration" THEN "certification" ELSE @]
    /\ UNCHANGED <<outsideAssign, nUsers, calls>>

\* assign_ppe_partners on a poll without users returns {} and changes nothing else.
AssignNoUsers ==
    /\ nUsers = 0
    /\ assignments' = Some(<<>>)
    /\ UNCHANGED <<outsideAssign, poll, nUsers, cert, calls>>

NextAssign ==
    \/ \E c \in 1..MaxCalls, i \in 0..(MaxUsers - 1) : StartNeighborhood(c, i)
    \/ \E c \in 1..MaxCalls : StepNeighborhood(c)
    \/ AssignPPEPartners
    \/ AssignNoUsers

\* ------------------------------------------------------------------------
\* Ideal graph generation (utils/graph_utils.py)
\* ------------------------------------------------------------------------

\* generate_seed_from_poll_id: the first 8 bytes of SHA-256 of the poll id, here a
\* fixed mixing function of the poll id.
generate_seed_from_poll_id(poll_id) == (poll_id * 7919 + 13) % 65537

\* A pseudo-random generator is a stream that its seed determines: the state a
\* generator starts from when it is seeded,
Seeded(seed) == seed % 65537

\* the state after one draw,
NextRandom(s) == (s * 75 + 74) % 65537

\* and the value below bound that the draw gives.
RandBelow(s, bound) == (s \div 7) % bound

RECURSIVE ShuffleFrom(_, _, _)
\* shuffle, positions i down to 2: x[i] is swapped with a position drawn below it.
ShuffleFrom(x, s, i) ==
    IF i < 2 THEN [list |-> x, state |-> s]
    ELSE LET s1 == NextRandom(s)
             j == RandBelow(s1, i) + 1
         IN  ShuffleFrom([x EXCEPT ![i] = x[j], ![j] = x[i]], s1, i - 1)

\* seed.shuffle(x): the shuffled list and the generator's state afterwards.
Shuffle(x, s) == ShuffleFrom(x, s, Len(x))

\* An undirected edge as the pair (smaller, larger).
Edge(a, b) == <<Min(a, b), Max(a, b)>>

\* {i: set(G.neighbors(i)) for i in range(n)}
AdjacencyOf(n, edges) ==
    [i \in 0..(n - 1) |->
        {j \in 0..(n - 1) : j # i /\ Edge(i, j) \in edges}]

\* potential_edges[v] += 1 on a defaultdict: keys keep their insertion order.
AddPotential(pot, v) ==
    [order |-> IF \E t \in 1..Len(pot.order) : pot.order[t] = v
               THEN pot.order ELSE Append(pot.order, v),
     count |-> [pot.count EXCEPT ![v] = @ + 1]]

RECURSIVE PairStubs(_, _, _, _)
\* for s1, s2 in zip(stubiter, stubiter): a pair becomes an edge unless it is a
\* loop or an edge already; otherwise both ends are kept for the next round.
PairStubs(stubs, t, edges, pot) ==
    IF t + 1 > Len(stubs) THEN [edges |-> edges, pot |-> pot]
    ELSE LET e == Edge(stubs[t], stubs[t + 1])
         IN  IF e[1] # e[2] /\ e \notin edges
             THEN PairStubs(stubs, t + 2, edges \cup {e}, pot)
             ELSE PairStubs(stubs, t + 2, edges,
                            AddPotential(AddPotential(pot, e[1]), e[2]))

\* _suitable(edges, potential_edges): some pair of the remaining nodes is not an edge yet.
Suitable(edges, pot) ==
    \/ pot.order = <<>>
    \/ \E i \in 1..Len(pot.order), j \in 1..Len(pot.order) :
            j < i /\ Edge(pot.order[i], pot.order[j]) \notin edges

RECURSIVE Repeat(_, _)
\* [v] * c
Repeat(v, c) == IF c <= 0 THEN <<>> ELSE <<v>> \o Repeat(v, c - 1)

RECURSIVE StubsOf(_, _, _)
\* [node for node, c in ... for _ in range(c)], nodes taken in the order of the list
StubsOf(order, count, t) ==
    IF t > Len(order) THEN <<>>
    ELSE Repeat(order[t], count[order[t]]) \o StubsOf(order, count, t + 1)

RECURSIVE TryRounds(_, _, _, _)
\* The while loop of _try_creation: None when no suitable pair is left.
TryRounds(n, stubs, edges, s) ==
    IF stubs = <<>> THEN [edges |-> Some(edges), state |-> s]
    ELSE LET sh == Shuffle(stubs, s)
             r == PairStubs(sh.list, 1, edges,
                            [order |-> <<>>, count |-> [v \in 0..(n - 1) |-> 0]])
         IN  IF ~Suitable(r.edges, r.pot)
             THEN [edges |-> None, state |-> sh.state]
             ELSE TryRounds(n, StubsOf(r.pot.order, r.pot.count, 1), r.edges, sh.state)

\* _try_creation(): stubs = list(range(n)) * d
TryCreation(n, d, s) ==
    TryRounds(n, [t \in 1..(n * d) |-> (t - 1) % n], {}, s)

\* A returned adjacency map, or an exception of the given class.
GraphReturned(graph) == [raised |-> "", graph |-> graph]

GraphRaised(error) == [raised |-> error, graph |-> <<>>]

RECURSIVE CreateEdges(_, _, _)
\* edges = _try_creation(); while edges is None: edges = _try_creation()
\* (each attempt goes on from the generator state the last one left).
CreateEdges(n, d, s) ==
    LET r == TryCreation(n, d, s)
    IN  IF r.edges = None THEN CreateEdges(n, d, r.state) ELSE r.edges[1]

\* nx.random_regular_graph(d, n, seed=seed): NetworkXError unless n * d is even and
\* 0 <= d < n; otherwise a d-regular graph drawn with its own Random(seed).
random_regular_graph(d, n, seed) ==
    IF (n * d) % 2 # 0 \/ ~(0 <= d /\ d < n) THEN GraphRaised("NetworkXError")
    ELSE IF d = 0 THEN GraphReturned(AdjacencyOf(n, {}))
    ELSE GraphReturned(AdjacencyOf(n, CreateEdges(n, d, Seeded(seed))))

RECURSIVE StubList(_, _)
\* The stub list of a degree sequence: node i - 1 repeated degree_sequence[i] times.
StubList(degree_sequence, i) ==
    IF i > Len(degree_sequence) THEN <<>>
    ELSE Repeat(i - 1, degree_sequence[i]) \o StubList(degree_sequence, i + 1)

\* nx.configuration_model(degree_sequence, seed=seed), then nx.Graph(G) and the
\* removal of self-loops: the shuffled stub list is cut in two halves that are
\* paired position by position; parallel edges collapse and loops are dropped.
configuration_model(degree_sequence, seed) ==
    LET sh == Shuffle(StubList(degree_sequence, 1), Seeded(seed)).list
        half == Len(sh) \div 2
    IN  {Edge(sh[t], sh[half + t]) : t \in {u \in 1..half : sh[u] # sh[half + u]}}

\* The except branch: degree_sequence = [k] * n, the last entry raised by one when
\* the sum is odd.
FallbackGraph(n, k, seed) ==
    LET degree_sequence ==
            [i \in 1..n |-> IF i = n /\ (n * k) % 2 # 0 THEN k + 1 ELSE k]
    IN  AdjacencyOf(n, configuration_model(degree_sequence, seed))

\* The generator the regular graph is drawn from when none is passed on: the
\* process-wide one, in whatever state other code has left it.
generate_random_regular_graph_Unseeded(n, k, seed) ==
    IF n < 2 THEN GraphReturned(<<>>)
    ELSE IF k >= n THEN GraphRaised("ValueError")
    ELSE IF random_regular_graph(k, n, seed).raised = ""
         THEN IF k = 0 THEN GraphReturned(AdjacencyOf(n, {}))
              ELSE GraphReturned(AdjacencyOf(n, CreateEdges(n, k, rng)))
         ELSE GraphReturned(FallbackGraph(n, k, seed))

\* The exact construction given up for the configuration model on every call.
generate_random_regular_graph_AlwaysFallback(n, k, seed) ==
    IF n < 2 THEN GraphReturned(<<>>)
    ELSE IF k >= n THEN GraphRaised("ValueError")
    ELSE GraphReturned(FallbackGraph(n, k, seed))

\* generate_random_regular_graph(n, k, seed)
generate_random_regular_graph(n, k, seed) ==
    IF n < 2 THEN GraphReturned(<<>>)
    ELSE IF k >= n THEN GraphRaised("ValueError")
    ELSE LET G == random_regular_graph(k, n, seed)
         IN  IF G.raised = "" THEN G
             ELSE GraphReturned(FallbackGraph(n, k, seed))

\* The dict comprehension of generate_ideal_graph: user_graph[participant_ids[idx]]
\* is set for idx in increasing order, so the last index of a user id wins.
UserGraph(participant_ids, index_graph) ==
    LET n == Len(participant_ids)
        last(u) == CHOOSE i \in DOMAIN index_graph :
                        /\ participant_ids[i + 1] = u
                        /\ \A j \in DOMAIN index_graph :
                                participant_ids[j + 1] = u => j <= i
    IN  [u \in {participant_ids[i + 1] : i \in DOMAIN index_graph} |->
            {participant_ids[nb + 1] : nb \in index_graph[last(u)]}]

\* generate_ideal_graph without the special case of two participants.
generate_ideal_graph_NoPairCase(participant_ids, poll_id, k) ==
    LET n == Len(participant_ids)
    IN  IF n = 0 THEN GraphReturned(<<>>)
        ELSE IF n = 1 THEN GraphReturned([u \in {participant_ids[1]} |-> {}])
        ELSE LET r == generate_random_regular_graph(
                            n, Min(k, n - 1), generate_seed_from_poll_id(poll_id))
             IN  IF r.raised # "" THEN r
                 ELSE GraphReturned(UserGraph(participant_ids, r.graph))

\* generate_ideal_graph(participant_ids, poll_id, k)
generate_ideal_graph(participant_ids, poll_id, k) ==
    LET n == Len(participant_ids)
    IN  IF n = 0 THEN GraphReturned(<<>>)
        ELSE IF n = 1 THEN GraphReturned([u \in {participant_ids[1]} |-> {}])
        ELSE IF n = 2
        THEN GraphReturned([u \in {participant_ids[1], participant_ids[2]} |->
                IF u = participant_ids[1] THEN {participant_ids[2]}
                ELSE {participant_ids[1]}])
        ELSE LET r == generate_random_regular_graph(
                            n, Min(k, n - 1), generate_seed_from_poll_id(poll_id))
             IN  IF r.raised # "" THEN r
                 ELSE GraphReturned(UserGraph(participant_ids, r.graph))

\* ------------------------------------------------------------------------
\* Graph validation (utils/graph_utils.py)
\* ------------------------------------------------------------------------

RECURSIVE SumOver(_, _)
\* sum(f[x] for x in S)
SumOver(f, S) ==
    IF S = {} THEN 0
    ELSE LET x == CHOOSE y \in S : TRUE IN f[x] + SumOver(f, S \ {x})

RECURSIVE Bfs(_, _, _)
\* The breadth-first search of validate_graph_properties.  graph[node] is read for
\* every node taken from the queue, and a node that is not a key raises KeyError.
\* The order in which a neighbor set is walked changes neither the visited set nor
\* whether the search raises, so the queue is kept as the set of nodes still in it.
Bfs(graph, queue, visited) ==
    IF queue = {} THEN [raised |-> "", visited |-> visited]
    ELSE LET node == CHOOSE x \in queue : TRUE
         IN  IF node \notin DOMAIN graph
             THEN [raised |-> "KeyError", visited |-> visited]
             ELSE Bfs(graph, (queue \ {node}) \cup (graph[node] \ visited),
                      visited \cup graph[node])

\* The symmetry loop: False as soon as a neighbor is no key or does not list the node.
IsSymmetric(graph) ==
    \A node \in DOMAIN graph : \A neighbor \in graph[node] :
        neighbor \in DOMAIN graph /\ node \in graph[neighbor]

\* The report of an empty graph.
EmptyGraphReport ==
    [raised |-> "", is_valid |-> TRUE, is_connected |-> FALSE, num_nodes |-> 0,
     num_edges |-> 0, min_degree |-> 0, max_degree |-> 0, avg_degree |-> 0,
     is_symmetric |-> TRUE]

\* What a call leaves when an exception escapes it.
RaisedReport(error) ==
    [raised |-> error, is_valid |-> FALSE, is_connected |-> FALSE, num_nodes |-> 0,
     num_edges |-> 0, min_degree |-> 0, max_degree |-> 0, avg_degree |-> 0,
     is_symmetric |-> FALSE]

\* validate_graph_properties(graph); start_node is the first key of the dict.
validate_graph_properties(graph, start_node) ==
    IF DOMAIN graph = {} THEN EmptyGraphReport
    ELSE LET n == Cardinality(DOMAIN graph)
             degrees == [node \in DOMAIN graph |-> Cardinality(graph[node])]
             total == SumOver(degrees, DOMAIN graph)
             search == Bfs(graph, {start_node}, {start_node})
         IN  IF search.raised # "" THEN RaisedReport(search.raised)
             ELSE [raised |-> "",
                   is_valid |-> IsSymmetric(graph),
                   is_connected |-> Cardinality(search.visited) = n,
                   num_nodes |-> n,
                   num_edges |-> total \div 2,
                   min_degree |-> CHOOSE v \in {degrees[x] : x \in DOMAIN graph} :
                                    \A x \in DOMAIN graph : v <= degrees[x],
                   max_degree |-> CHOOSE v \in {degrees[x] : x \in DOMAIN graph} :
                                    \A x \in DOMAIN graph : v >= degrees[x],
                   avg_degree |-> Div(Fix(total), Fix(n)),
                   is_symmetric |-> IsSymmetric(graph)]

\* ------------------------------------------------------------------------
\* The graph utilities as operations of a process
\* ------------------------------------------------------------------------

\* Calls of generate_ideal_graph in one behaviour.
MaxGenerations == 2

\* Values other code draws from the process-wide generator in one behaviour.
MaxDraws == 2

\* Largest participant list.
MaxParticipants == 5

\* Participant lists: user ids n, n - 1, .. 1 in registration order.
ParticipantLists == {[i \in 1..n |-> n + 1 - i] : n \in 0..MaxParticipants}

PollIds == {1, 2}

TargetDegrees == 0..MaxParticipants

\* Adjacency maps handed to validate_graph_properties: any keys among three node
\* ids, any neighbor sets among them.
GraphNodes == {1, 2, 3}

InputGraphs ==
    UNION {[keys -> SUBSET GraphNodes] : keys \in SUBSET GraphNodes}

\* A process that has generated and validated nothing; its random module was
\* seeded from the system at import.
InitGraph ==
    /\ rng \in {1, 2}
    /\ draws = 0
    /\ generated = <<>>
    /\ report = None

GenerationRecord(participant_ids, poll_id, k) ==
    [participant_ids |-> participant_ids, poll_id |-> poll_id, k |-> k,
     result |-> generate_ideal_graph(participant_ids, poll_id, k)]

\* random.seed(seed) in generate_random_regular_graph, reached with three or more
\* participants, reseeds the process-wide generator.
AfterGeneration(participant_ids, poll_id) ==
    IF Len(participant_ids) >= 3
    THEN Seeded(generate_seed_from_poll_id(poll_id)) ELSE rng

\* The first generate_ideal_graph(participant_ids, poll_id, k) of the process.
GenerateIdealGraph(participant_ids, poll_id, k) ==
    /\ generated = <<>>
    /\ generated' = <<GenerationRecord(participant_ids, poll_id, k)>>
    /\ rng' = AfterGeneration(participant_ids, poll_id)
    /\ UNCHANGED <<draws, report, outsideGraph>>

\* The same call made again.
GenerateAgain ==
    /\ generated # <<>>
    /\ Len(generated) < MaxGenerations
    /\ LET c == generated[1]
       IN  /\ generated' = Append(generated,
                                  GenerationRecord(c.participant_ids, c.poll_id, c.k))
           /\ rng' = AfterGeneration(c.participant_ids, c.poll_id)
    /\ UNCHANGED <<draws, report, outsideGraph>>

\* Other code draws from the process-wide generator (random.choice in
\* generate_captcha_text).
DrawRandom ==
    /\ draws < MaxDraws
    /\ rng' = NextRandom(rng)
    /\ draws' = draws + 1
    /\ UNCHANGED <<generated, report, outsideGraph>>

\* validate_graph_properties(graph) on a dict whose first key is start_node.
ValidateGraphProperties(graph, start_node) ==
    /\ report = None
    /\ start_node \in DOMAIN graph \/ DOMAIN graph = {}
    /\ report' = Some([graph |-> graph,
                       start_node |-> IF DOMAIN graph = {} THEN 0 ELSE start_node,
                       outcome |-> validate_graph_properties(graph, start_node)])
    /\ UNCHANGED <<rng, draws, generated, outsideGraph>>

NextGraph ==
    \/ \E participant_ids \in ParticipantLists, poll_id \in PollIds,
          k \in TargetDegrees : GenerateIdealGraph(participant_ids, poll_id, k)
    \/ GenerateAgain
    \/ DrawRandom

NextValidation ==
    \E graph \in InputGraphs, start_node \in GraphNodes :
        ValidateGraphProperties(graph, start_node)

\* ------------------------------------------------------------------------
\* Sybil resistance bound (services/sybil_bounds.py)
\* ------------------------------------------------------------------------

\* The data of a node: its 'honest' and 'deleted' attributes.  A node without
\* attributes reads as honest (data.get('honest', True)) and not deleted
\* (data.get('deleted', False)).
NodeData == BOOLEAN \X BOOLEAN

\* A certification graph as the calculators read it: number_of_nodes(),
\* number_of_edges() and, for each node data, the number of nodes carrying it.
\* The graphs used are k-regular.
AttributedGraph(k, count) ==
    LET m == count[<<TRUE, FALSE>>] + count[<<TRUE, TRUE>>]
             + count[<<FALSE, FALSE>>] + count[<<FALSE, TRUE>>]
    IN  [m |-> m, n_edges |-> (m * k) \div 2, count |-> count]

\* The k-regular graph on m nodes without attributes.
RegularGraph(m, k) ==
    AttributedGraph(k, [data \in NodeData |->
                            IF data = <<TRUE, FALSE>> THEN m ELSE 0])

\* self.n of SybilBoundCalculator: the nodes honest and not deleted.
HonestNotDeleted(graph) == graph.count[<<TRUE, FALSE>>]

\* self.d = (2 * self.n_edges) / self.m if self.m > 0 else 0
AverageDegree(graph) ==
    IF graph.m > 0 THEN Div(2 * graph.n_edges, graph.m) ELSE 0

\* int(x) for a float x >= 0
IntOf(x) == x \div Scale

\* K = int(security_param + (eta_v * m + 2) * np.log(m) + eta_v * m), m >= 1
FreeBound(security_param, m, eta_v) ==
    IntOf(Fix(security_param) + Mul(eta_v * m + Fix(2), Ln(m)) + eta_v * m)

\* The kappa compute_sybil_bound uses for K.
SybilSecurityParam == 40

\* b of compute_sybil_bound: np.sqrt(d (0.5 - eta_v) / (2 np.log(m) - 2)) for m > 1,
\* which is NaN (None here) when the quotient is negative, and 2.0 for m = 1.
SybilB(m, d, eta_v) ==
    IF m > 1
    THEN LET radicand == DivS(MulS(d, Half - eta_v), 2 * Ln(m) - Fix(2))
         IN  IF radicand < 0 THEN None ELSE Some(Sqrt(radicand))
    ELSE Some(Fix(2))

\* max_sybil with the quotient of the Theorem 4.4 branch bracketed wrongly:
\* int(b / (denominator * (a / d))).
MaxSybil_DenominatorTimesRatio(m, d, attack_edges, eta_e, eta_v, expansion_ratio) ==
    LET bb == SybilB(m, d, eta_v)
        b == bb[1]
        denominator == MulS(b - Scale, Half - eta_v) - MulS(b, eta_e)
    IN  IF bb = None THEN None
        ELSE IF b <= Scale \/ denominator <= 0
        THEN IF Mul(d, expansion_ratio) = 0 THEN None
             ELSE Some(IntOf(Div(Fix(attack_edges), Mul(d, expansion_ratio))))
        ELSE IF d = 0 THEN None
        ELSE IF Mul(denominator, Div(Fix(attack_edges), d)) = 0 THEN None
        ELSE Some(IntOf(Div(b, Mul(denominator, Div(Fix(attack_edges), d)))))

\* max_sybil of compute_sybil_bound, or None when the computation raises:
\* the coarse bound int(a / (d * expansion_ratio)) when b <= 1 or the denominator is
\* not positive (ZeroDivisionError when d * expansion_ratio is 0.0), and otherwise
\* the Theorem 4.4 bound int((b / denominator) * (a / d)) (ValueError from int(nan)
\* when b is NaN, for which both comparisons are false; ZeroDivisionError from a / d
\* for d = 0.0).
MaxSybil(m, d, attack_edges, eta_e, eta_v, expansion_ratio) ==
    LET bb == SybilB(m, d, eta_v)
        b == bb[1]
        denominator == MulS(b - Scale, Half - eta_v) - MulS(b, eta_e)
    IN  IF bb = None THEN None
        ELSE IF b <= Scale \/ denominator <= 0
        THEN IF Mul(d, expansion_ratio) = 0 THEN None
             ELSE Some(IntOf(Div(Fix(attack_edges), Mul(d, expansion_ratio))))
        ELSE IF d = 0 THEN None
        ELSE Some(IntOf(Mul(Div(b, denominator), Div(Fix(attack_edges), d))))

\* The classification with the boundaries 5 and 15 put in the stronger class.
ResistanceLevel_BoundaryInStrongerClass(sybil_percentage) ==
    IF sybil_percentage <= Fix(5) THEN "HIGH"
    ELSE IF sybil_percentage <= Fix(15) THEN "MEDIUM"
    ELSE "LOW"

\* if sybil_percentage < 5: HIGH; elif sybil_percentage < 15: MEDIUM; else: LOW
ResistanceLevel(sybil_percentage) ==
    IF sybil_percentage < Fix(5) THEN "HIGH"
    ELSE IF sybil_percentage < Fix(15) THEN "MEDIUM"
    ELSE "LOW"

\* SybilResistanceBound(...); raised names the exception when there is no bound.
SybilResistanceBound(max_sybil_nodes, a, d, n, C_star, expansion_factor, resistance_level, sybil_percentage) ==
    [raised |-> "", max_sybil_nodes |-> max_sybil_nodes, attack_edges |-> a,
     average_degree |-> d, honest_nodes |-> n, multiplicative_advantage |-> C_star,
     expansion_factor |-> expansion_factor, resistance_level |-> resistance_level,
     sybil_percentage |-> sybil_percentage]

SybilBoundRaised ==
    [raised |-> "ArithmeticError", max_sybil_nodes |-> 0, attack_edges |-> 0,
     average_degree |-> 0, honest_nodes |-> 0, multiplicative_advantage |-> 0,
     expansion_factor |-> 0, resistance_level |-> "", sybil_percentage |-> 0]

\* _create_zero_bound()
create_zero_bound == SybilResistanceBound(0, 0, 0, 0, Fix(1), 0, "UNKNOWN", 0)

\* compute_sybil_bound with only the empty graph taken for degenerate.
compute_sybil_bound_EmptyOnly(graph, attack_edges, eta_e, eta_v, expansion_ratio) ==
    LET m == graph.m
        d == AverageDegree(graph)
        max_sybil == MaxSybil(m, d, attack_edges, eta_e, eta_v, expansion_ratio)
        K == FreeBound(SybilSecurityParam, m, eta_v)
        max_sybil_nodes == Max(K, max_sybil[1])
        sybil_percentage == Div(max_sybil_nodes, m) * 100
    IN  IF m = 0 THEN create_zero_bound
        ELSE IF max_sybil = None THEN SybilBoundRaised
        ELSE SybilResistanceBound(
                max_sybil_nodes, attack_edges, d, HonestNotDeleted(graph),
                IF attack_edges > 0 THEN Fix(max_sybil_nodes) ELSE Fix(1),
                expansion_ratio, ResistanceLevel(sybil_percentage), sybil_percentage)

\* SybilBoundCalculator(graph, attack_edges, eta_e, eta_v)
\*     .compute_sybil_bound(expansion_ratio)
compute_sybil_bound(graph, attack_edges, eta_e, eta_v, expansion_ratio) ==
    LET m == graph.m
        d == AverageDegree(graph)
        max_sybil == MaxSybil(m, d, attack_edges, eta_e, eta_v, expansion_ratio)
        K == FreeBound(SybilSecurityParam, m, eta_v)
        max_sybil_nodes == Max(K, max_sybil[1])
        sybil_percentage == Div(max_sybil_nodes, m) * 100
    IN  IF m = 0 \/ d = 0 THEN create_zero_bound
        ELSE IF max_sybil = None THEN SybilBoundRaised
        ELSE SybilResistanceBound(
                max_sybil_nodes, attack_edges, d, HonestNotDeleted(graph),
                IF attack_edges > 0 THEN Fix(max_sybil_nodes) ELSE Fix(1),
                expansion_ratio, ResistanceLevel(sybil_percentage), sybil_percentage)

\* ------------------------------------------------------------------------
\* Expansion metrics report (services/graph_expansion.py,
\* services/graph_expansion_service.py): the parts the Sybil bound depends on
\* ------------------------------------------------------------------------

\* self.n of GraphExpansionAnalyzer: the nodes whose 'honest' attribute is true.
AnalyzerHonest(graph) == graph.count[<<TRUE, FALSE>>] + graph.count[<<TRUE, TRUE>>]

\* self.rho of GraphExpansionAnalyzer: the nodes whose 'deleted' attribute is true.
AnalyzerDeleted(graph) == graph.count[<<TRUE, TRUE>>] + graph.count[<<FALSE, TRUE>>]

\* build_lse_parameters_from_graph(graph, security_param, eta_v) for m >= 1:
\* q = ((b - 1) / b) * p when b > 1 and 0.3 otherwise (also when b is NaN).
build_lse_parameters_from_graph(graph, security_param, eta_v) ==
    LET m == graph.m
        d == AverageDegree(graph)
        radicand == DivS(MulS(d, Half - eta_v), 2 * Ln(m) - Fix(2))
        b == Sqrt(radicand)
    IN  [K |-> FreeBound(security_param, m, eta_v),
         rho |-> IntOf(eta_v * m),
         q |-> IF d > 0 /\ radicand >= 0 /\ b > Scale
               THEN Mul(Div(b - Scale, b), Div(d, Fix(m)))
               ELSE (Scale * 3) \div 10]

\* estimate_attack_edges_from_graph on a regular graph: no degree deviates from the
\* mean, so no node is suspicious and the estimate is 0.
estimate_attack_edges_from_graph(graph) == 0

\* No report: compute_all_metrics raised the exception named.
MetricsRaised(error) ==
    [raised |-> error, m |-> 0, num_edges |-> 0, n |-> 0, num_deleted_nodes |-> 0,
     d |-> 0, lse_parameters |-> None, sybil_bound |-> None]

\* compute_minimum_degree(required_min) on a regular graph, where every degree is
\* 2 * edges / nodes; 0 without nodes.
compute_minimum_degree(graph, required_min) ==
    LET min_degree == IF graph.m = 0 THEN 0 ELSE (2 * graph.n_edges) \div graph.m
    IN  [minimum_degree |-> min_degree, required_minimum |-> required_min,
         satisfies_requirement |-> min_degree >= required_min]

\* A number as the format .2f prints it, in hundredths.
Format2f(x) == (x + Scale \div 200) \div (Scale \div 100)

\* One entry of failure_reasons when the verdict is false, none when it is true.
ReasonUnless(verdict, text, value) == IF verdict THEN <<>> ELSE <<<<text, value>>>>

\* The overall verdict with the minimum degree left out of all([...]).
OverallVerification_WithoutMinimumDegree(is_lse, vertex_exp, edge_exp, spectral_gap, min_degree) ==
    [verification_passed |->
        /\ is_lse
        /\ vertex_exp.satisfies_threshold
        /\ edge_exp.satisfies_threshold
        /\ spectral_gap.satisfies_threshold,
     failure_reasons |->
        ReasonUnless(is_lse, "Graph does not satisfy LSE property", 0)
        \o ReasonUnless(vertex_exp.satisfies_threshold, "Vertex expansion too low",
                Format2f(vertex_exp.expansion_ratio))
        \o ReasonUnless(edge_exp.satisfies_threshold, "Edge expansion too low",
                Format2f(edge_exp.conductance))
        \o ReasonUnless(spectral_gap.satisfies_threshold, "Spectral gap too low",
                Format2f(spectral_gap.lambda_2))
        \o ReasonUnless(min_degree.satisfies_requirement, "Minimum degree too low",
                min_degree.minimum_degree)]

\* verification_passed and failure_reasons of compute_all_metrics, from the five
\* component results.
OverallVerification(is_lse, vertex_exp, edge_exp, spectral_gap, min_degree) ==
    [verification_passed |->
        /\ is_lse
        /\ vertex_exp.satisfies_threshold
        /\ edge_exp.satisfies_threshold
        /\ spectral_gap.satisfies_threshold
        /\ min_degree.satisfies_requirement,
     failure_reasons |->
        ReasonUnless(is_lse, "Graph does not satisfy LSE property", 0)
        \o ReasonUnless(vertex_exp.satisfies_threshold, "Vertex expansion too low",
                Format2f(vertex_exp.expansion_ratio))
        \o ReasonUnless(edge_exp.satisfies_threshold, "Edge expansion too low",
                Format2f(edge_exp.conductance))
        \o ReasonUnless(spectral_gap.satisfies_threshold, "Spectral gap too low",
                Format2f(spectral_gap.lambda_2))
        \o ReasonUnless(min_degree.satisfies_requirement, "Minimum degree too low",
                min_degree.minimum_degree)]

\* compute_all_metrics(graph, poll_id, attack_edges, security_param, eta_e, eta_v).
\* expansion_ratio is the ratio compute_vertex_expansion measured on its random
\* sample of subsets, and measured holds what the other sampled computations
\* came to: the conductance, lambda_2 and the LSE verdict.  On an empty graph np.log(0) is -inf and int(-inf) raises
\* OverflowError in build_lse_parameters_from_graph.
compute_all_metrics(graph, attack_edges, security_param, eta_e, eta_v, expansion_ratio, measured) ==
    LET lse_params == build_lse_parameters_from_graph(graph, security_param, eta_v)
        a == IF attack_edges = None
             THEN estimate_attack_edges_from_graph(graph) ELSE attack_edges[1]
        sybil_bound == compute_sybil_bound(graph, a, eta_e, eta_v, expansion_ratio)
        vertex_exp == [expansion_ratio |-> expansion_ratio,
                       satisfies_threshold |-> expansion_ratio >= Fix(2)]
        edge_exp == [conductance |-> measured.conductance,
                     satisfies_threshold |-> measured.conductance >= (3 * Scale) \div 10]
        spectral_gap == [lambda_2 |-> measured.lambda_2,
                         satisfies_threshold |-> measured.lambda_2 >= Scale \div 10]
        min_degree == compute_minimum_degree(graph, 2)
        overall == OverallVerification(measured.is_lse, vertex_exp, edge_exp,
                        spectral_gap, min_degree)
    IN  IF graph.m = 0 THEN MetricsRaised("OverflowError")
        ELSE IF sybil_bound.raised # "" THEN MetricsRaised(sybil_bound.raised)
        ELSE [raised |-> "", m |-> graph.m, num_edges |-> graph.n_edges,
              n |-> AnalyzerHonest(graph),
              num_deleted_nodes |-> AnalyzerDeleted(graph),
              d |-> AverageDegree(graph),
              lse_parameters |-> Some(lse_params),
              is_lse |-> measured.is_lse,
              vertex_expansion |-> vertex_exp,
              edge_expansion |-> edge_exp,
              spectral_gap |-> spectral_gap,
              minimum_degree |-> min_degree,
              sybil_bound |-> Some(sybil_bound),
              verification_passed |-> overall.verification_passed,
              failure_reasons |-> overall.failure_reasons]

\* ------------------------------------------------------------------------
\* The Sybil bound and the metrics report as operations
\* ------------------------------------------------------------------------

\* Calls of compute_sybil_bound in one behaviour.
MaxBoundCalls == 2

\* (m, k): the k-regular graphs on m nodes the bound is computed on.
SybilShapes ==
    {<<0, 0>>, <<1, 0>>, <<2, 1>>, <<3, 0>>, <<20, 6>>, <<200, 5>>, <<200, 10>>,
     <<200, 20>>, <<200, 33>>, <<200, 40>>, <<200, 60>>, <<1000, 60>>, <<10000, 5>>}

AttackEdges == {0, 1, 10, 100, 500, 1000, 2500, 7500}

SybilEtaEs == {StandardEtaE}

SybilEtaVs == {0, StandardEtaV}

ExpansionRatios == {0, Fix(1), Fix(2)}

SecurityParams == {20, 40, 80}

BoundRecord(m, k, attack_edges, eta_e, eta_v, expansion_ratio) ==
    [m |-> m, k |-> k, attack_edges |-> attack_edges, eta_e |-> eta_e,
     eta_v |-> eta_v, expansion_ratio |-> expansion_ratio,
     bound |-> compute_sybil_bound(RegularGraph(m, k), attack_edges, eta_e, eta_v,
                                   expansion_ratio)]

\* The first SybilBoundCalculator(graph, attack_edges, eta_e, eta_v)
\* .compute_sybil_bound(expansion_ratio) of the behaviour.
ComputeSybilBound(m, k, attack_edges, eta_e, eta_v, expansion_ratio) ==
    /\ bounds = <<>>
    /\ bounds' = <<BoundRecord(m, k, attack_edges, eta_e, eta_v, expansion_ratio)>>
    /\ UNCHANGED <<metrics, outsideSybil>>

\* A further calculator on the same graph, tolerances and expansion ratio with
\* another number of attack edges.
ComputeWithAttackEdges(attack_edges) ==
    /\ bounds # <<>>
    /\ Len(bounds) < MaxBoundCalls
    /\ LET c == bounds[1]
       IN  bounds' = Append(bounds, BoundRecord(c.m, c.k, attack_edges, c.eta_e,
                                                c.eta_v, c.expansion_ratio))
    /\ UNCHANGED <<metrics, outsideSybil>>

\* A further calculator with the same attack edges, tolerances and expansion ratio
\* on a graph with as many nodes and another degree.
ComputeWithDegree(k) ==
    /\ bounds # <<>>
    /\ Len(bounds) < MaxBoundCalls
    /\ <<bounds[1].m, k>> \in SybilShapes
    /\ LET c == bounds[1]
       IN  bounds' = Append(bounds, BoundRecord(c.m, k, c.attack_edges, c.eta_e,
                                                c.eta_v, c.expansion_ratio))
    /\ UNCHANGED <<metrics, outsideSybil>>

\* expansion_service.compute_all_metrics(graph, poll_id, attack_edges,
\* security_param, eta_e, eta_v); the vertex expansion sample gives expansion_ratio.
ComputeAllMetrics(graph, attack_edges, security_param, eta_e, eta_v, expansion_ratio, measured) ==
    /\ metrics = None
    /\ metrics' = Some([graph |-> graph, attack_edges |-> attack_edges,
                        security_param |-> security_param, eta_e |-> eta_e,
                        eta_v |-> eta_v,
                        report |-> compute_all_metrics(graph, attack_edges,
                                        security_param, eta_e, eta_v, expansion_ratio,
                                        measured)])
    /\ UNCHANGED <<bounds, outsideSybil>>

NextSybil ==
    \/ \E s \in SybilShapes, a \in AttackEdges, eta_e \in SybilEtaEs,
          eta_v \in SybilEtaVs, r \in ExpansionRatios :
            ComputeSybilBound(s[1], s[2], a, eta_e, eta_v, r)
    \/ \E a \in AttackEdges : ComputeWithAttackEdges(a)
    \/ \E s \in SybilShapes : ComputeWithDegree(s[2])

\* The graphs reports are computed on: the regular graphs of SybilShapes without
\* node attributes, and 4-regular graphs of twenty nodes in all, every node with
\* its honest and deleted attributes set.
MetricsGraphs ==
    {RegularGraph(s[1], s[2]) : s \in SybilShapes}
    \cup {AttributedGraph(4, [data \in NodeData |->
                IF data = <<TRUE, FALSE>> THEN 20 - hd - sk - sd
                ELSE IF data = <<TRUE, TRUE>> THEN hd
                ELSE IF data = <<FALSE, FALSE>> THEN sk ELSE sd]) :
            hd \in 0..2, sk \in 0..2, sd \in 0..2}

\* What the sampled computations may come to: a conductance below and above the
\* threshold 0.3, a lambda_2 below and above 0.1, and either LSE verdict.
Measurements ==
    [conductance : {Scale \div 10, Scale \div 2}, lambda_2 : {0, Scale \div 5},
     is_lse : BOOLEAN]

\* One report is computed in a behaviour.
NextMetrics ==
    /\ metrics = None
    /\ \E graph \in MetricsGraphs, a \in {None} \cup {Some(x) : x \in AttackEdges},
          kappa \in SecurityParams, eta_e \in SybilEtaEs, eta_v \in SybilEtaVs,
          r \in ExpansionRatios, measured \in Measurements :
            ComputeAllMetrics(graph, a, kappa, eta_e, eta_v, r, measured)

\* ------------------------------------------------------------------------
\* Expansion sampling (services/graph_expansion.py): the random subsets of
\* compute_vertex_expansion and compute_edge_expansion
\* ------------------------------------------------------------------------

\* A graph with its edges: the nodes are 0..m-1 and adj[v] the neighbors of v.
CompleteGraph(m) == [m |-> m, adj |-> [v \in 0..(m - 1) |-> (0..(m - 1)) \ {v}]]

CycleGraph(m) ==
    [m |-> m, adj |-> [v \in 0..(m - 1) |-> {(v + 1) % m, (v + m - 1) % m}]]

\* np.linspace(start, stop, num, dtype=int) for start <= stop and num >= 1: num
\* evenly spaced values from start to stop, each cut to an integer.
Linspace(start, stop, num) ==
    IF num = 1 THEN <<start>>
    ELSE [i \in 1..num |-> start + ((i - 1) * (stop - start)) \div (num - 1)]

\* subset_sizes of both expansion computations, from the K they sample with.
SubsetSizes(K, m) ==
    LET half == Max(K, m \div 2)
        max_subset_size == IF half <= K THEN Min(m - 1, K + 10) ELSE half
        num_sizes == Min(10, max_subset_size - K + 1)
    IN  IF num_sizes <= 0 THEN <<K>> ELSE Linspace(K, max_subset_size, num_sizes)

\* set(np.random.choice(list(graph.nodes()), size, replace=False)): the first size
\* nodes of a random permutation, and the generator's state afterwards.
RandomSubset(m, size, s) ==
    LET shuffled == Shuffle([i \in 1..m |-> i - 1], s)
    IN  [subset |-> {shuffled.list[i] : i \in 1..size}, state |-> shuffled.state]

\* The nodes of a set in the order list() gives them (ascending for small ints).
RECURSIVE Ascending(_)
Ascending(S) ==
    IF S = {} THEN <<>>
    ELSE LET least == CHOOSE x \in S : \A y \in S : x <= y
         IN  <<least>> \o Ascending(S \ {least})

\* list(B)[:stop] as a set: the first stop elements, or all but the last -stop
\* elements when stop is negative.
SliceTo(S, stop) ==
    LET list == Ascending(S)
        last == IF stop >= 0 THEN Min(stop, Len(list)) ELSE Max(0, Len(list) + stop)
    IN  {list[i] : i \in 1..last}

\* One sample of compute_vertex_expansion: |A|, |neighbors(A) & B| and their ratio.
VertexSample(graph, A, rho) ==
    LET nodes == 0..(graph.m - 1)
        neighbors_A == UNION {graph.adj[node] : node \in A} \ A
        B == SliceTo(nodes \ A, graph.m - Cardinality(A) - rho)
        neighbors_in_B == neighbors_A \cap B
    IN  [subset_size |-> Cardinality(A),
         count |-> Cardinality(neighbors_in_B),
         ratio |-> IF Cardinality(A) > 0
                   THEN Div(Fix(Cardinality(neighbors_in_B)), Fix(Cardinality(A)))
                   ELSE 0]

\* One sample of compute_edge_expansion: |S|, the crossing edges and the conductance.
EdgeSample(graph, S, rho) ==
    LET V_minus_S == (0..(graph.m - 1)) \ S
        crossing == [node \in S |-> Cardinality(graph.adj[node] \cap V_minus_S)]
        crossing_edges == SumOver(crossing, S)
        denominator == Min(Cardinality(S), Cardinality(V_minus_S))
    IN  [subset_size |-> Cardinality(S),
         count |-> crossing_edges,
         ratio |-> IF denominator > 0
                   THEN Div(Fix(crossing_edges), Fix(denominator)) ELSE 0]

\* One sample of the computation named.
Sample(kind, graph, A, rho) ==
    IF kind = "vertex" THEN VertexSample(graph, A, rho) ELSE EdgeSample(graph, A, rho)

RECURSIVE SampleLoop(_, _, _, _, _, _, _, _)
\* The two nested loops: for each subset size, per_size random subsets; worst is
\* None (float('inf')) or the sample with the smallest ratio so far, the first one
\* among equals.  drawn lists the subsets in the order they were drawn.
SampleLoop(kind, graph, rho, sizes, per_size, done, s, acc) ==
    IF sizes = <<>> \/ per_size = 0 THEN acc
    ELSE IF done = per_size
    THEN SampleLoop(kind, graph, rho, Tail(sizes), per_size, 0, s, acc)
    ELSE LET draw == RandomSubset(graph.m, Min(Head(sizes), graph.m), s)
             sample == Sample(kind, graph, draw.subset, rho)
             worst == IF acc.worst = None \/ sample.ratio < acc.worst[1].ratio
                      THEN Some(sample) ELSE acc.worst
         IN  SampleLoop(kind, graph, rho, sizes, per_size, done + 1, draw.state,
                        [worst |-> worst, drawn |-> Append(acc.drawn, draw.subset)])

\* The K compute_vertex_expansion samples with: int(m / 4) when K >= m / 2.
AdjustedK(K, m) == IF 2 * K >= m THEN m \div 4 ELSE K

\* All samples of one computation, from the generator state s.
Samples(kind, graph, K, rho, sample_size, s) ==
    LET sizes == SubsetSizes(IF kind = "vertex" THEN AdjustedK(K, graph.m) ELSE K,
                             graph.m)
    IN  SampleLoop(kind, graph, rho, sizes, sample_size \div Len(sizes), 0, s,
                   [worst |-> None, drawn |-> <<>>])

\* VertexExpansionResult / EdgeExpansionResult: ratio is None for float('inf'),
\* which no sample undercuts when no subset was drawn.
ExpansionResult(worst, threshold) ==
    IF worst = None
    THEN [subset_size |-> 0, count |-> 0, ratio |-> None,
          satisfies_threshold |-> TRUE, threshold |-> threshold]
    ELSE [subset_size |-> worst[1].subset_size, count |-> worst[1].count,
          ratio |-> Some(worst[1].ratio),
          satisfies_threshold |-> worst[1].ratio >= threshold,
          threshold |-> threshold]

\* GraphExpansionAnalyzer(graph).compute_vertex_expansion(K, rho, threshold,
\* sample_size) with np.random in state s.
compute_vertex_expansion(graph, K, rho, threshold, sample_size, s) ==
    ExpansionResult(Samples("vertex", graph, K, rho, sample_size, s).worst, threshold)

\* GraphExpansionAnalyzer(graph).compute_edge_expansion(K, rho, threshold,
\* sample_size) with np.random in state s.
compute_edge_expansion(graph, K, rho, threshold, sample_size, s) ==
    ExpansionResult(Samples("edge", graph, K, rho, sample_size, s).worst, threshold)

\* One pair (A, B) of verify_lse_property, drawn with np.random in state s: A of
\* the given size, |B| from np.random.randint(min_B_size, max_B_size + 1), B from
\* the nodes outside A.  tested is FALSE when the pair is skipped.
LSEPair(graph, size, rho, q, s) ==
    LET draw == RandomSubset(graph.m, Min(size, graph.m), s)
        A == draw.subset
        min_B_size == Max(1, graph.m - Cardinality(A) - rho)
        max_B_size == graph.m - Cardinality(A)
        s1 == NextRandom(draw.state)
        B_size == min_B_size + (s1 % (max_B_size - min_B_size + 1))
        possible_B_nodes == Ascending((0..(graph.m - 1)) \ A)
        shuffled == Shuffle(possible_B_nodes, s1)
        B == IF Len(possible_B_nodes) < B_size
             THEN {possible_B_nodes[i] : i \in 1..Len(possible_B_nodes)}
             ELSE {shuffled.list[i] : i \in 1..B_size}
        edges_AB == SumOver([node_a \in A |-> Cardinality(graph.adj[node_a] \cap B)], A)
        required_edges == Cardinality(A) * Cardinality(B) * q
    IN  IF max_B_size < min_B_size
        THEN [tested |-> FALSE, violation |-> FALSE, state |-> draw.state]
        ELSE [tested |-> TRUE, violation |-> Fix(edges_AB) <= required_edges,
              state |-> shuffled.state]

RECURSIVE LSELoop(_, _, _, _, _, _, _, _)
\* The two nested loops of verify_lse_property with their counters.
LSELoop(graph, rho, q, sizes, per_size, done, s, acc) ==
    IF sizes = <<>> \/ per_size = 0 THEN acc
    ELSE IF done = per_size
    THEN LSELoop(graph, rho, q, Tail(sizes), per_size, 0, s, acc)
    ELSE LET pair == LSEPair(graph, Head(sizes), rho, q, s)
         IN  LSELoop(graph, rho, q, sizes, per_size, done + 1, pair.state,
                     [tests |-> acc.tests + (IF pair.tested THEN 1 ELSE 0),
                      violations |-> acc.violations
                                        + (IF pair.violation THEN 1 ELSE 0)])

\* GraphExpansionAnalyzer(graph).verify_lse_property(LSEParameters(K, rho, q),
\* sample_size) with np.random in state s; the counters are kept with the verdict.
\* violation_rate < 0.05 is 20 * violations < tests.
verify_lse_property(graph, K, rho, q, sample_size, s) ==
    LET sizes == SubsetSizes(K, graph.m)
        counted == LSELoop(graph, rho, q, sizes, sample_size \div Len(sizes), 0, s,
                           [tests |-> 0, violations |-> 0])
        violation_rate_below == IF counted.tests > 0
                                THEN 20 * counted.violations < counted.tests
                                ELSE TRUE
    IN  [is_lse |-> violation_rate_below, tests |-> counted.tests,
         violations |-> counted.violations]

\* ------------------------------------------------------------------------
\* Expansion sampling as operations
\* ------------------------------------------------------------------------

\* Largest sample_size a computation is called with.
MaxSampleSize == 4

\* Largest graph sampled.
MaxNodes == 6

ExpansionGraphs ==
    {CompleteGraph(m) : m \in 0..MaxNodes} \cup {CycleGraph(m) : m \in 3..MaxNodes}

\* States np.random can be in when a computation starts.
NumpyStates == {1, 2}

\* The call and what it returned; drawn lists the subsets it sampled.
ExpansionRecord(kind, graph, K, rho, sample_size, s, returned) ==
    [kind |-> kind, m |-> graph.m, K |-> K, rho |-> rho, sample_size |-> sample_size,
     drawn |-> Samples(kind, graph, K, rho, sample_size, s).drawn,
     result |-> returned]

ComputeVertexExpansion(graph, K, rho, sample_size, s) ==
    /\ expansion = None
    /\ spectral = None
    /\ expansion' = Some(ExpansionRecord("vertex", graph, K, rho, sample_size, s,
                            compute_vertex_expansion(graph, K, rho, Fix(2),
                                                     sample_size, s)))
    /\ UNCHANGED <<spectral, outsideExpansion>>

ComputeEdgeExpansion(graph, K, rho, sample_size, s) ==
    /\ expansion = None
    /\ spectral = None
    /\ expansion' = Some(ExpansionRecord("edge", graph, K, rho, sample_size, s,
                            compute_edge_expansion(graph, K, rho, (Scale * 3) \div 10,
                                                   sample_size, s)))
    /\ UNCHANGED <<spectral, outsideExpansion>>

\* Edge densities q of the LSE parameters: 0, 0.5 and 1.
LSEDensities == {0, Scale \div 2, Scale}

VerifyLSEProperty(graph, K, rho, q, sample_size, s) ==
    /\ expansion = None
    /\ spectral = None
    /\ expansion' = Some([kind |-> "lse", m |-> graph.m, K |-> K, rho |-> rho,
                          q |-> q, sample_size |-> sample_size,
                          result |-> verify_lse_property(graph, K, rho, q,
                                                         sample_size, s)])
    /\ UNCHANGED <<spectral, outsideExpansion>>

\* ------------------------------------------------------------------------
\* Spectral gap (services/spectral_analysis.py)
\* ------------------------------------------------------------------------

\* The Laplacian eigenvalues in ascending order, as np.linalg.eigvalsh and eigsh
\* give them for the graphs used: 0, m, ..., m for the complete graph on m nodes
\* and 0, 2 - 2 cos(2 pi / m), ... for the cycle on m nodes; one eigenvalue 0 for
\* a single node.  Only the first two are listed.
LaplacianEigenvalues(graph) ==
    LET nodes == 0..(graph.m - 1)
        complete == \A v \in nodes : graph.adj[v] = nodes \ {v}
    IN  IF graph.m = 1 THEN <<0>>
        ELSE IF complete THEN <<0, Fix(graph.m)>>
        ELSE IF graph.m = 4 THEN <<0, Fix(2)>>
        ELSE IF graph.m = 5 THEN <<0, 13819>>
        ELSE <<0, Fix(1)>>

\* _compute_dense_spectral_gap: eigenvalues[1] if len(eigenvalues) > 1 else 0.0.
compute_dense_spectral_gap(graph) ==
    LET eigenvalues == LaplacianEigenvalues(graph)
    IN  IF Len(eigenvalues) > 1 THEN eigenvalues[2] ELSE 0

\* _compute_sparse_spectral_gap: the same from the min(3, m - 1) smallest
\* eigenvalues; it is called for m > 100 only and falls back to the dense
\* computation when eigsh fails.
compute_sparse_spectral_gap(graph) ==
    LET eigenvalues == LaplacianEigenvalues(graph)
    IN  IF Len(eigenvalues) > 1 THEN eigenvalues[2] ELSE 0

SpectralGapResult(lambda_2, satisfies_threshold, threshold) ==
    [raised |-> "", second_eigenvalue |-> lambda_2,
     algebraic_connectivity |-> lambda_2,
     satisfies_threshold |-> satisfies_threshold, threshold |-> threshold]

\* compute_spectral_gap with the comparison against the threshold reversed.
compute_spectral_gap_BelowThreshold(graph, threshold, method) ==
    LET lambda_2 == IF method = "sparse" /\ graph.m > 100
                    THEN compute_sparse_spectral_gap(graph)
                    ELSE compute_dense_spectral_gap(graph)
    IN  IF graph.m = 0 THEN SpectralGapResult(0, FALSE, threshold)
        ELSE SpectralGapResult(lambda_2, lambda_2 <= threshold, threshold)

\* SpectralAnalyzer(graph).compute_spectral_gap(threshold, method).  Nothing in the
\* try block raises on the graphs used; an exception there gives the same result
\* as m = 0.
compute_spectral_gap(graph, threshold, method) ==
    LET lambda_2 == IF method = "sparse" /\ graph.m > 100
                    THEN compute_sparse_spectral_gap(graph)
                    ELSE compute_dense_spectral_gap(graph)
    IN  IF graph.m = 0 THEN SpectralGapResult(0, FALSE, threshold)
        ELSE SpectralGapResult(lambda_2, lambda_2 >= threshold, threshold)

SpectralGraphs ==
    {CompleteGraph(m) : m \in {0, 1, 2, 3, 10, 101}}
    \cup {CycleGraph(m) : m \in {4, 5, 6}}

\* 0, the default 0.1, and the thresholds 1.0 and 5.0.
SpectralThresholds == {0, Scale \div 10, Fix(1), Fix(5)}

SpectralMethods == {"sparse", "dense"}

ComputeSpectralGap(graph, threshold, method) ==
    /\ expansion = None
    /\ spectral = None
    /\ spectral' = Some([m |-> graph.m, method |-> method,
                         result |-> compute_spectral_gap(graph, threshold, method)])
    /\ UNCHANGED <<expansion, outsideExpansion>>

NextExpansion ==
    \/ \E graph \in ExpansionGraphs, K \in 0..MaxNodes, rho \in 0..1,
          sample_size \in 1..MaxSampleSize, s \in NumpyStates :
            \/ ComputeVertexExpansion(graph, K, rho, sample_size, s)
            \/ ComputeEdgeExpansion(graph, K, rho, sample_size, s)
            \/ \E q \in LSEDensities :
                    VerifyLSEProperty(graph, K, rho, q, sample_size, s)
    \/ \E graph \in SpectralGraphs, threshold \in SpectralThresholds,
          method \in SpectralMethods :
            ComputeSpectralGap(graph, threshold, method)

\* ------------------------------------------------------------------------
\* Graph cache (services/graph_service.py): the singleton graph_service used by
\* several threads of one process, for one poll
\* ------------------------------------------------------------------------

\* self.default_k
default_k == 3

\* Calls one thread makes in one behaviour.
MaxCacheCalls == 2

CacheThreads == {1, 2}

\* The registrants of the poll at the time of a call: three users, or four, and the
\* four in another order.
CacheParticipantLists ==
    {p \in ParticipantLists : Len(p) \in {3, 4}} \cup {<<2, 1, 3, 4>>}

\* The k a caller passes: none, or 2.
CacheDegrees == {None, Some(2)}

\* validate_graph_properties(graph) on a graph generate_ideal_graph returned, whose
\* first key is its first participant.
PropertiesOf(graph) ==
    validate_graph_properties(graph,
        IF DOMAIN graph = {} THEN 0 ELSE CHOOSE u \in DOMAIN graph : TRUE)

\* A thread outside every call.
IdleThread == [pc |-> "idle", participant_ids |-> <<>>, k |-> None, graph |-> None,
               raised |-> "", calls |-> 0]

\* The thread as it enters a call at the line named.
Entered(thread, line, participant_ids) ==
    [thread EXCEPT !.pc = line, !.participant_ids = participant_ids, !.k = None,
                   !.graph = None, !.raised = "", !.calls = @ + 1]

\* The thread as it leaves a call, by return (error = "") or by exception.
Left(thread, error) == [thread EXCEPT !.pc = "idle", !.raised = error]

CanEnter(t) == threads[t].pc = "idle" /\ threads[t].calls < MaxCacheCalls

\* k if k is not None else self.default_k
EffectiveK(k) == IF k = None THEN default_k ELSE k[1]

\* set(cached_graph.keys()) == set(participant_ids)
CacheStillValid(cached_graph, participant_ids, k) ==
    DOMAIN cached_graph = {participant_ids[i] : i \in 1..Len(participant_ids)}

\* get_or_generate_graph(poll_id, participant_ids, k), statement by statement: the
\* membership test (45), the read of the cached graph and the comparison of its
\* keys (46-49), the generation and the write of the graph (52-56), the validation
\* and the write of the properties (59-62).  The thread's graph is what the call
\* returns.
GetOrGenerateGraph(t, participant_ids, k) ==
    \/ /\ CanEnter(t)
       /\ threads' = [threads EXCEPT ![t] =
                        [Entered(@, "45", participant_ids) EXCEPT !.k = k]]
       /\ UNCHANGED <<cacheStore, rng, outsideCache>>
    \/ /\ threads[t].pc = "45"
       /\ threads' = [threads EXCEPT ![t].pc =
                            IF graph_cache # None THEN "46" ELSE "52"]
       /\ UNCHANGED <<cacheStore, rng, outsideCache>>
    \/ /\ threads[t].pc = "46"
       /\ threads' = [threads EXCEPT ![t] =
            IF graph_cache = None THEN Left(@, "KeyError")
            ELSE IF CacheStillValid(graph_cache[1], @.participant_ids, @.k)
            THEN Left([@ EXCEPT !.graph = graph_cache], "")
            ELSE [@ EXCEPT !.pc = "52"]]
       /\ UNCHANGED <<cacheStore, rng, outsideCache>>
    \/ /\ threads[t].pc = "52"
       /\ LET graph == generate_ideal_graph(threads[t].participant_ids, 1,
                                            EffectiveK(threads[t].k)).graph
          IN  /\ graph_cache' = Some(graph)
              /\ threads' = [threads EXCEPT ![t].pc = "59", ![t].graph = Some(graph)]
       /\ rng' = AfterGeneration(threads[t].participant_ids, 1)
       /\ UNCHANGED <<properties_cache, observed, outsideCache>>
    \/ /\ threads[t].pc = "59"
       /\ properties_cache' = Some(PropertiesOf(threads[t].graph[1]))
       /\ threads' = [threads EXCEPT ![t] = Left(@, "")]
       /\ UNCHANGED <<graph_cache, observed, rng, outsideCache>>

\* get_graph_properties(poll_id), statement by statement: the membership test (89),
\* the read of the cached properties (90), the membership test of the graph (93),
\* its read (94), the validation and the write of the properties (95-97).  What
\* line 90 returns is recorded with the graph that is cached at that moment.
GetGraphProperties(t) ==
    \/ /\ CanEnter(t)
       /\ threads' = [threads EXCEPT ![t] = Entered(@, "89", <<>>)]
       /\ UNCHANGED <<cacheStore, rng, outsideCache>>
    \/ /\ threads[t].pc = "89"
       /\ threads' = [threads EXCEPT ![t].pc =
                            IF properties_cache # None THEN "90" ELSE "93"]
       /\ UNCHANGED <<cacheStore, rng, outsideCache>>
    \/ /\ threads[t].pc = "90"
       /\ threads' = [threads EXCEPT ![t] =
                        Left(@, IF properties_cache = None THEN "KeyError" ELSE "")]
       /\ observed' = IF properties_cache = None THEN observed
                      ELSE observed \cup {[graph |-> graph_cache,
                                           properties |-> properties_cache[1]]}
       /\ UNCHANGED <<graph_cache, properties_cache, rng, outsideCache>>
    \/ /\ threads[t].pc = "93"
       /\ threads' = [threads EXCEPT ![t] =
                        IF graph_cache # None THEN [@ EXCEPT !.pc = "94"]
                        ELSE Left(@, "")]
       /\ UNCHANGED <<cacheStore, rng, outsideCache>>
    \/ /\ threads[t].pc = "94"
       /\ threads' = [threads EXCEPT ![t] =
                        IF graph_cache = None THEN Left(@, "KeyError")
                        ELSE [@ EXCEPT !.pc = "95", !.graph = graph_cache]]
       /\ UNCHANGED <<cacheStore, rng, outsideCache>>
    \/ /\ threads[t].pc = "95"
       /\ properties_cache' = Some(PropertiesOf(threads[t].graph[1]))
       /\ threads' = [threads EXCEPT ![t] = Left(@, "")]
       /\ UNCHANGED <<graph_cache, observed, rng, outsideCache>>

\* get_user_neighbors(poll_id, user_id): one dict.get.
GetUserNeighbors(t) ==
    /\ CanEnter(t)
    /\ threads' = [threads EXCEPT ![t] = Left(Entered(@, "75", <<>>), "")]
    /\ UNCHANGED <<cacheStore, rng, outsideCache>>

\* invalidate_graph(poll_id), statement by statement: test (130) and del (131) of
\* the graph, test (132) and del (133) of the properties.
InvalidateGraph(t) ==
    \/ /\ CanEnter(t)
       /\ threads' = [threads EXCEPT ![t] = Entered(@, "130", <<>>)]
       /\ UNCHANGED <<cacheStore, rng, outsideCache>>
    \/ /\ threads[t].pc = "130"
       /\ threads' = [threads EXCEPT ![t].pc =
                            IF graph_cache # None THEN "131" ELSE "132"]
       /\ UNCHANGED <<cacheStore, rng, outsideCache>>
    \/ /\ threads[t].pc = "131"
       /\ graph_cache' = None
       /\ threads' = [threads EXCEPT ![t] =
                        IF graph_cache = None THEN Left(@, "KeyError")
                        ELSE [@ EXCEPT !.pc = "132"]]
       /\ UNCHANGED <<properties_cache, observed, rng, outsideCache>>
    \/ /\ threads[t].pc = "132"
       /\ threads' = [threads EXCEPT ![t] =
                        IF properties_cache # None THEN [@ EXCEPT !.pc = "133"]
                        ELSE Left(@, "")]
       /\ UNCHANGED <<cacheStore, rng, outsideCache>>
    \/ /\ threads[t].pc = "133"
       /\ properties_cache' = None
       /\ threads' = [threads EXCEPT ![t] =
                        Left(@, IF properties_cache = None THEN "KeyError" ELSE "")]
       /\ UNCHANGED <<graph_cache, observed, rng, outsideCache>>

\* GraphService(): both caches empty.
InitCache ==
    /\ graph_cache = None
    /\ properties_cache = None
    /\ threads = [t \in CacheThreads |-> IdleThread]
    /\ observed = {}

NextCache ==
    \/ \E t \in CacheThreads, participant_ids \in CacheParticipantLists,
          k \in CacheDegrees :
            GetOrGenerateGraph(t, participant_ids, k)
    \/ \E t \in CacheThreads : GetGraphProperties(t)
    \/ \E t \in CacheThreads : GetUserNeighbors(t)
    \/ \E t \in CacheThreads : InvalidateGraph(t)

\* ------------------------------------------------------------------------
\* Voting state machine (services/state_machine.py)
\* ------------------------------------------------------------------------

\* Most users registered for the poll of the state machine runs.
MaxVoters == 2

\* Most PPE reports (completed or failed) recorded for the poll's users together.
MaxReports == 3

PollPhases ==
    {"setup", "registration", "certification", "voting", "tallying",
     "verification", "closed"}

\* db.query(Poll).filter_by(id=poll_id).first(): the database holds poll 1.
PollFound(poll_id) == poll_id = 1

\* db.query(User).filter_by(id=user_id, poll_id=poll_id).first()
UserFound(user_id) == user_id \in 0..(nUsers - 1)

\* A (state, reason) pair; a reason is the text and the numbers formatted into it.
UserStateOf(state, reason) == [state |-> state, reason |-> reason]

\* get_user_state without the has_voted test of the voting phase.
get_user_state_VoteAgain(user_id, poll_id) ==
    IF ~PollFound(poll_id)
    THEN UserStateOf("unregistered", Some(<<"Poll not found">>))
    ELSE IF ~UserFound(user_id)
    THEN UserStateOf("unregistered", Some(<<"Not registered for this poll">>))
    ELSE IF poll.phase = "setup"
    THEN UserStateOf("unregistered", Some(<<"Poll not yet open for registration">>))
    ELSE IF poll.phase = "closed"
    THEN UserStateOf("excluded", Some(<<"Poll has closed">>))
    ELSE IF poll.phase = "registration"
    THEN UserStateOf("registered", Some(<<"Waiting for registration to close">>))
    ELSE IF cert[user_id] = None
    THEN IF poll.phase = "certification"
         THEN UserStateOf("awaiting_assignments", Some(<<"Waiting for PPE assignments">>))
         ELSE UserStateOf("registered", Some(<<"Certification not yet started">>))
    ELSE LET cert_state == cert[user_id][1] IN
    IF cert_state.is_excluded
    THEN UserStateOf("excluded",
            Some(<<"Failed PPEs (max allowed)", cert_state.failed_ppes,
                   cert_state.max_allowed_failures>>))
    ELSE IF poll.phase = "certification"
    THEN IF cert_state.is_certified
         THEN UserStateOf("certified", Some(<<"Waiting for voting phase to open">>))
         ELSE UserStateOf("certifying",
                Some(<<"Complete more PPEs",
                       cert_state.required_ppes - cert_state.completed_ppes>>))
    ELSE IF poll.phase = "voting"
    THEN IF ~cert_state.is_certified
         THEN UserStateOf("failed_certification",
                Some(<<"Did not complete certification in time">>))
         ELSE UserStateOf("can_vote", None)
    ELSE IF poll.phase \in {"tallying", "verification"}
    THEN IF cert_state.has_voted
         THEN UserStateOf("voted", Some(<<"Poll closed, vote counted">>))
         ELSE UserStateOf("excluded", Some(<<"Did not vote in time">>))
    ELSE UserStateOf("unregistered", Some(<<"Unknown state">>))

\* get_user_state(user_id, poll_id): the tests in the order of the code.
get_user_state(user_id, poll_id) ==
    IF ~PollFound(poll_id)
    THEN UserStateOf("unregistered", Some(<<"Poll not found">>))
    ELSE IF ~UserFound(user_id)
    THEN UserStateOf("unregistered", Some(<<"Not registered for this poll">>))
    ELSE IF poll.phase = "setup"
    THEN UserStateOf("unregistered", Some(<<"Poll not yet open for registration">>))
    ELSE IF poll.phase = "closed"
    THEN UserStateOf("excluded", Some(<<"Poll has closed">>))
    ELSE IF poll.phase = "registration"
    THEN UserStateOf("registered", Some(<<"Waiting for registration to close">>))
    ELSE IF cert[user_id] = None
    THEN IF poll.phase = "certification"
         THEN UserStateOf("awaiting_assignments", Some(<<"Waiting for PPE assignments">>))
         ELSE UserStateOf("registered", Some(<<"Certification not yet started">>))
    ELSE LET cert_state == cert[user_id][1] IN
    IF cert_state.is_excluded
    THEN UserStateOf("excluded",
            Some(<<"Failed PPEs (max allowed)", cert_state.failed_ppes,
                   cert_state.max_allowed_failures>>))
    ELSE IF poll.phase = "certification"
    THEN IF cert_state.is_certified
         THEN UserStateOf("certified", Some(<<"Waiting for voting phase to open">>))
         ELSE UserStateOf("certifying",
                Some(<<"Complete more PPEs",
                       cert_state.required_ppes - cert_state.completed_ppes>>))
    ELSE IF poll.phase = "voting"
    THEN IF ~cert_state.is_certified
         THEN UserStateOf("failed_certification",
                Some(<<"Did not complete certification in time">>))
         ELSE IF cert_state.has_voted
         THEN UserStateOf("voted", Some(<<"Already voted">>))
         ELSE UserStateOf("can_vote", None)
    ELSE IF poll.phase \in {"tallying", "verification"}
    THEN IF cert_state.has_voted
         THEN UserStateOf("voted", Some(<<"Poll closed, vote counted">>))
         ELSE UserStateOf("excluded", Some(<<"Did not vote in time">>))
    ELSE UserStateOf("unregistered", Some(<<"Unknown state">>))

\* can_user_vote(user_id, poll_id): (True, None) in state CAN_VOTE, else
\* (False, reason).
can_user_vote(user_id, poll_id) ==
    LET user_state == get_user_state(user_id, poll_id)
    IN  IF user_state.state = "can_vote"
        THEN [can_vote |-> TRUE, reason |-> None]
        ELSE [can_vote |-> FALSE, reason |-> user_state.reason]

\* CertificationState.update_certification_status
update_certification_status_CompletionFirst(row) ==
    IF row.completed_ppes >= row.required_ppes
    THEN [row EXCEPT !.is_certified = TRUE]
    ELSE IF row.failed_ppes > row.max_allowed_failures
    THEN [row EXCEPT !.is_excluded = TRUE, !.is_certified = FALSE]
    ELSE [row EXCEPT !.is_certified = FALSE]

update_certification_status(row) ==
    IF row.failed_ppes > row.max_allowed_failures
    THEN [row EXCEPT !.is_excluded = TRUE, !.is_certified = FALSE]
    ELSE IF row.completed_ppes >= row.required_ppes
    THEN [row EXCEPT !.is_certified = TRUE]
    ELSE [row EXCEPT !.is_certified = FALSE]

\* A state machine call and how it ended: raised is "" or the exception's name.
MachineCall(op, user_id, poll_id, raised, value) ==
    [op |-> op, user_id |-> user_id, poll_id |-> poll_id, raised |-> raised,
     value |-> value]

\* A poll row with the column defaults (phase "setup") and its registered users,
\* none of whom has a certification state yet.
InitMachine ==
    /\ poll = NoPoll
    /\ nUsers \in 0..MaxVoters
    /\ cert = [u \in 0..(nUsers - 1) |-> None]
    /\ assignments = None
    /\ calls = [c \in 1..MaxCalls |-> IdleCall]
    /\ recorded = {}
    /\ last_call = None

\* The poll's phase column written from outside the state machine: nothing in the
\* application moves a poll out of SETUP or past VOTING, the tests assign the
\* column directly.
SetPhase(phase) ==
    /\ phase # poll.phase
    /\ poll' = [poll EXCEPT !.phase = phase]
    /\ last_call' = None
    /\ UNCHANGED <<nUsers, cert, recorded, outsideMachine>>

\* The PPE reports recorded so far for the users below n.
RECURSIVE ReportsMade(_)
ReportsMade(n) ==
    IF n = 0 THEN 0
    ELSE ReportsMade(n - 1)
            + (IF cert[n - 1] = None THEN 0
               ELSE cert[n - 1][1].completed_ppes + cert[n - 1][1].failed_ppes)

\* CertificationState.add_completed_ppe(ppe_id, partner_id, signature); of the
\* dict collected_signatures the keys are kept, of the id lists the members.
add_completed_ppe(row, ppe_id, partner_id) ==
    IF ppe_id \notin row.completed_ppe_ids
    THEN update_certification_status(
            [row EXCEPT !.completed_ppe_ids = @ \cup {ppe_id},
                        !.completed_ppes = @ + 1,
                        !.collected_signatures = @ \cup {partner_id}])
    ELSE row

\* CertificationState.add_failed_ppe(ppe_id)
add_failed_ppe(row, ppe_id) ==
    IF ppe_id \notin row.failed_ppe_ids
    THEN update_certification_status(
            [row EXCEPT !.failed_ppe_ids = @ \cup {ppe_id},
                        !.failed_ppes = @ + 1])
    ELSE row

\* POST /complete-ppe for a user with a certification state (404 without one).
CompletePPE(user_id, partner_id, ppe_id) ==
    /\ UserFound(user_id)
    /\ cert[user_id] # None
    /\ ReportsMade(nUsers) < MaxReports
    /\ cert' = [cert EXCEPT ![user_id] =
                    Some(add_completed_ppe(@[1], ppe_id, partner_id))]
    /\ last_call' = None
    /\ UNCHANGED <<poll, nUsers, recorded, outsideMachine>>

\* POST /fail-ppe for a user with a certification state (404 without one).
FailPPE(user_id, ppe_id) ==
    /\ UserFound(user_id)
    /\ cert[user_id] # None
    /\ ReportsMade(nUsers) < MaxReports
    /\ cert' = [cert EXCEPT ![user_id] = Some(add_failed_ppe(@[1], ppe_id))]
    /\ last_call' = None
    /\ UNCHANGED <<poll, nUsers, recorded, outsideMachine>>

\* A caller asks can_user_vote(user_id, poll_id).
CanUserVote(user_id, poll_id) ==
    /\ last_call' = Some(MachineCall("can_user_vote", user_id, poll_id, "",
                            can_user_vote(user_id, poll_id)))
    /\ UNCHANGED <<poll, nUsers, cert, recorded, outsideMachine>>

\* transition_to_certification(poll_id)
TransitionToCertification(poll_id) ==
    IF ~PollFound(poll_id) \/ poll.phase # "registration"
    THEN /\ last_call' = Some(MachineCall("transition_to_certification", -1,
                                poll_id, "ValueError", 0))
         /\ UNCHANGED <<poll, nUsers, cert, recorded, outsideMachine>>
    ELSE /\ poll' = [poll EXCEPT !.phase = "certification"]
         /\ cert' = [u \in 0..(nUsers - 1) |->
                        IF cert[u] = None THEN Some(NewCertificationState)
                        ELSE cert[u]]
         /\ last_call' = Some(MachineCall("transition_to_certification", -1,
                                poll_id, "", nUsers))
         /\ UNCHANGED <<nUsers, recorded, outsideMachine>>

\* The (num_certified, num_excluded) pair transition_to_voting returns.
CertifiedAndExcluded ==
    LET rows == {u \in 0..(nUsers - 1) : cert[u] # None}
        certified == {u \in rows :
                        cert[u][1].is_certified /\ ~cert[u][1].is_excluded}
    IN  <<Cardinality(certified), Cardinality(rows \ certified)>>

\* transition_to_voting that does not look at the phase.
TransitionToVoting_Unguarded(poll_id) ==
    IF ~PollFound(poll_id)
    THEN /\ last_call' = Some(MachineCall("transition_to_voting", -1, poll_id,
                                "ValueError", 0))
         /\ UNCHANGED <<poll, nUsers, cert, recorded, outsideMachine>>
    ELSE /\ poll' = [poll EXCEPT !.phase = "voting"]
         /\ last_call' = Some(MachineCall("transition_to_voting", -1, poll_id,
                                "", CertifiedAndExcluded))
         /\ UNCHANGED <<nUsers, cert, recorded, outsideMachine>>

\* transition_to_voting(poll_id)
TransitionToVoting(poll_id) ==
    IF ~PollFound(poll_id) \/ poll.phase # "certification"
    THEN /\ last_call' = Some(MachineCall("transition_to_voting", -1, poll_id,
                                "ValueError", 0))
         /\ UNCHANGED <<poll, nUsers, cert, recorded, outsideMachine>>
    ELSE /\ poll' = [poll EXCEPT !.phase = "voting"]
         /\ last_call' = Some(MachineCall("transition_to_voting", -1, poll_id,
                                "", CertifiedAndExcluded))
         /\ UNCHANGED <<nUsers, cert, recorded, outsideMachine>>

\* record_vote that marks the row without asking can_user_vote.
RecordVote_Unchecked(user_id, poll_id) ==
    IF ~(PollFound(poll_id) /\ UserFound(user_id) /\ cert[user_id] # None)
    THEN /\ last_call' = Some(MachineCall("record_vote", user_id, poll_id, "",
                                FALSE))
         /\ UNCHANGED <<poll, nUsers, cert, recorded, outsideMachine>>
    ELSE /\ cert' = [cert EXCEPT ![user_id] =
                        Some([@[1] EXCEPT !.has_voted = TRUE])]
         /\ recorded' = recorded \cup {user_id}
         /\ last_call' = Some(MachineCall("record_vote", user_id, poll_id, "",
                                TRUE))
         /\ UNCHANGED <<poll, nUsers, outsideMachine>>

\* record_vote(user_id, poll_id)
RecordVote(user_id, poll_id) ==
    IF ~can_user_vote(user_id, poll_id).can_vote
    THEN /\ last_call' = Some(MachineCall("record_vote", user_id, poll_id, "",
                                FALSE))
         /\ UNCHANGED <<poll, nUsers, cert, recorded, outsideMachine>>
    ELSE /\ cert' = [cert EXCEPT ![user_id] =
                        Some([@[1] EXCEPT !.has_voted = TRUE])]
         /\ recorded' = recorded \cup {user_id}
         /\ last_call' = Some(MachineCall("record_vote", user_id, poll_id, "",
                                TRUE))
         /\ UNCHANGED <<poll, nUsers, outsideMachine>>

\* User ids a caller may pass: the registered users and one that is not.
MachineUsers == 0..MaxVoters

NextMachine ==
    \/ \E phase \in PollPhases : SetPhase(phase)
    \/ \E user_id \in MachineUsers : CompletePPE(user_id, MaxVoters, 1)
    \/ \E user_id \in MachineUsers : FailPPE(user_id, 1)
    \/ \E user_id \in MachineUsers, poll_id \in PollIds :
            CanUserVote(user_id, poll_id)
    \/ \E poll_id \in PollIds : TransitionToCertification(poll_id)
    \/ \E poll_id \in PollIds : TransitionToVoting(poll_id)
    \/ \E user_id \in MachineUsers, poll_id \in PollIds :
            RecordVote(user_id, poll_id)

\* ------------------------------------------------------------------------
\* Poll service (services/poll_service.py, models/poll.py)
\* ------------------------------------------------------------------------

\* get_user_id(public key) of the people who may turn up at the poll.
PollUsers == {"u1", "u2", "u3"}

VoteOptions == {"X", "Y"}

EmptyDict == [key \in {} |-> 0]

\* dict[key] = value
Put(dict, key, value) ==
    [k \in DOMAIN dict \cup {key} |-> IF k = key THEN value ELSE dict[k]]

\* Poll(question, options): every dict empty.
NewPoll ==
    [registrants |-> {}, votes |-> EmptyDict, verifications |-> EmptyDict,
     ppe_certifications |-> EmptyDict]

UserVerification == [verified_by |-> {}, has_verified |-> {}]

\* Poll.can_vote with min_verifications = 1.
Poll_can_vote_OneVerifier(p, user_id) ==
    IF user_id \notin DOMAIN p.verifications
    THEN FALSE
    ELSE Cardinality(p.verifications[user_id].verified_by) >= 1

\* Poll.can_vote(user_id) with the default min_verifications = 2.
Poll_can_vote(p, user_id) ==
    IF user_id \notin DOMAIN p.verifications
    THEN FALSE
    ELSE Cardinality(p.verifications[user_id].verified_by) >= 2

\* Poll.add_verification(verifier_id, verified_id)
add_verification(p, verifier_id, verified_id) ==
    LET old(u) == IF u \in DOMAIN p.verifications THEN p.verifications[u]
                  ELSE UserVerification
        first == Put(p.verifications, verifier_id,
                    [old(verifier_id) EXCEPT !.has_verified = @ \cup {verified_id}])
        older(u) == IF u \in DOMAIN first THEN first[u] ELSE UserVerification
    IN  [p EXCEPT !.verifications =
            Put(first, verified_id,
                [older(verified_id) EXCEPT !.verified_by = @ \cup {verifier_id}])]

\* Poll.add_ppe_certification(user1_id, user2_id)
add_ppe_certification(p, user1_id, user2_id) ==
    LET old(d, u) == IF u \in DOMAIN d THEN d[u] ELSE {}
        first == Put(p.ppe_certifications, user1_id,
                    old(p.ppe_certifications, user1_id) \cup {user2_id})
    IN  [p EXCEPT !.ppe_certifications =
            Put(first, user2_id, old(first, user2_id) \cup {user1_id})]

\* What a poll_service call left behind: raised is "" or the exception's name.
PollCall(op, user_id, raised, value) ==
    [op |-> op, user_id |-> user_id, raised |-> raised, value |-> value]

\* add_registrant(poll_id, public_key_jwk)
AddRegistrant(user_id) ==
    /\ user_id \notin polls_db.registrants
    /\ polls_db' = [polls_db EXCEPT !.registrants = @ \cup {user_id}]
    /\ poll_result' = None
    /\ UNCHANGED outsideLegacy

\* verify_user(poll_id, verifier_id, verified_id)
VerifyUser(verifier_id, verified_id) ==
    /\ IF \/ verifier_id \notin polls_db.registrants
          \/ verified_id \notin polls_db.registrants
          \/ verifier_id = verified_id
       THEN /\ poll_result' = Some(PollCall("verify_user", verified_id, "ValueError", 0))
            /\ UNCHANGED polls_db
       ELSE /\ polls_db' = add_verification(polls_db, verifier_id, verified_id)
            /\ poll_result' = Some(PollCall("verify_user", verified_id, "", 0))
    /\ UNCHANGED outsideLegacy

\* record_ppe_certification(poll_id, user1_id, user2_id)
RecordPPECertification(user1_id, user2_id) ==
    /\ IF \/ user1_id \notin polls_db.registrants
          \/ user2_id \notin polls_db.registrants
          \/ user1_id = user2_id
       THEN /\ poll_result' = Some(PollCall("record_ppe_certification", user1_id,
                                    "ValueError", 0))
            /\ UNCHANGED polls_db
       ELSE /\ polls_db' = add_ppe_certification(polls_db, user1_id, user2_id)
            /\ poll_result' = Some(PollCall("record_ppe_certification", user1_id,
                                    "", 0))
    /\ UNCHANGED outsideLegacy

\* PollService.record_vote(poll_id, vote) for a vote by user_id; signature_valid is
\* what verify_signature answers for it.
PollRecordVote(user_id, option, signature_valid) ==
    /\ IF user_id \notin polls_db.registrants
       THEN /\ poll_result' = Some(PollCall("record_vote", user_id, "ValueError", option))
            /\ UNCHANGED polls_db
       ELSE IF user_id \in DOMAIN polls_db.votes
       THEN /\ poll_result' = Some(PollCall("record_vote", user_id, "ValueError", option))
            /\ UNCHANGED polls_db
       ELSE IF ~Poll_can_vote(polls_db, user_id)
       THEN \* the message reads verified_by of {} when the user has no entry
            /\ poll_result' = Some(PollCall("record_vote", user_id,
                    IF user_id \in DOMAIN polls_db.verifications THEN "ValueError"
                    ELSE "AttributeError", option))
            /\ UNCHANGED polls_db
       ELSE IF ~signature_valid
       THEN /\ poll_result' = Some(PollCall("record_vote", user_id, "ValueError", option))
            /\ UNCHANGED polls_db
       ELSE /\ polls_db' = [polls_db EXCEPT !.votes = Put(@, user_id, option)]
            /\ poll_result' = Some(PollCall("record_vote", user_id, "", option))
    /\ UNCHANGED outsideLegacy

\* The smallest element of a non-empty set of numbers.
SetMin(numbers) == CHOOSE n \in numbers : \A other \in numbers : n <= other

\* min_certifications_per_user after the loop: None stands for float('inf').
MinCertifications(p) ==
    LET counts == {Cardinality(p.ppe_certifications[u]) :
                        u \in DOMAIN p.ppe_certifications}
    IN  IF p.registrants = {} THEN Some(0)
        ELSE IF counts = {} THEN None
        ELSE Some(SetMin(counts))

\* verify_poll_integrity(poll): the fields of the report the verdict is made of.
verify_poll_integrity(p) ==
    LET num_users == Cardinality(p.registrants)
        min_certifications_per_user == MinCertifications(p)
        unauthorized_votes == {voter_id \in DOMAIN p.votes : ~Poll_can_vote(p, voter_id)}
    IN  [total_participants |-> num_users,
         total_votes |-> Cardinality(DOMAIN p.votes),
         unauthorized_votes |-> unauthorized_votes,
         is_valid |->
            /\ unauthorized_votes = {}
            /\ \/ num_users = 0
               \/ min_certifications_per_user = None
               \/ min_certifications_per_user[1] >= 2]

\* GET /polls/{id}/verify: the report on the stored poll.
VerifyPollIntegrity ==
    /\ poll_result' = Some(PollCall("verify_poll_integrity", "", "",
                            verify_poll_integrity(polls_db)))
    /\ UNCHANGED <<polls_db, outsideLegacy>>

InitLegacy ==
    /\ polls_db = NewPoll
    /\ poll_result = None

NextLegacy ==
    \/ \E user_id \in PollUsers : AddRegistrant(user_id)
    \/ \E verifier_id, verified_id \in PollUsers : VerifyUser(verifier_id, verified_id)
    \/ \E user1_id, user2_id \in PollUsers : RecordPPECertification(user1_id, user2_id)
    \/ \E user_id \in PollUsers, option \in VoteOptions, signature_valid \in BOOLEAN :
            PollRecordVote(user_id, option, signature_valid)
    \/ VerifyPollIntegrity

\* ------------------------------------------------------------------------
\* Registration challenges (services/registration_service.py, utils/captcha_utils.py)
\* ------------------------------------------------------------------------

\* Most challenges created in a run.
MaxChallenges == 2

\* The clock stops here.
MaxClock == 6

challenge_validity_minutes == 5

\* Solutions generate_text_captcha may draw, and what a client may type.
CaptchaSolutions == {"ab", "Cd"}

TypedSolutions == {"ab", " AB ", "cd", "xy"}

\* str.strip().lower() on the strings above.
StripLower(text) ==
    CASE text = " AB " -> "ab"
      [] text = "Cd" -> "cd"
      [] OTHER -> text

\* CaptchaChallenge.is_expired
is_expired(challenge) == clock > challenge.expires_at

\* CaptchaChallenge.verify_solution: the hash of the stripped, lower-cased text is
\* compared with the stored hash; equal hashes are taken to mean equal texts.
verify_solution(challenge, solution) ==
    IF is_expired(challenge) THEN FALSE
    ELSE StripLower(solution) = challenge.solution_hash

\* _cleanup_expired_challenges on a dict of challenges
cleanup_expired_challenges(challenges) ==
    [cid \in {c \in DOMAIN challenges : ~is_expired(challenges[c])} |-> challenges[cid]]

\* create_challenge: a challenge with a fresh id is stored, expired ones removed.
CreateChallenge(solution) ==
    /\ issued < MaxChallenges
    /\ issued' = issued + 1
    /\ active_challenges' = cleanup_expired_challenges(
            Put(active_challenges, issued + 1,
                [solution_hash |-> StripLower(solution),
                 expires_at |-> clock + challenge_validity_minutes]))
    /\ validation' = None
    /\ UNCHANGED <<clock, attempted, outsideRegistration>>

\* validate_challenge that leaves the challenge in place after a wrong solution.
ValidateChallenge_RetryAfterFailure(challenge_id, solution) ==
    /\ LET challenge == IF challenge_id \in DOMAIN active_challenges
                        THEN Some(active_challenges[challenge_id]) ELSE None
       IN  IF challenge = None
           THEN /\ validation' = Some([challenge_id |-> challenge_id,
                                       solution |-> solution, is_valid |-> FALSE])
                /\ UNCHANGED active_challenges
           ELSE LET is_valid == verify_solution(challenge[1], solution)
                IN  /\ validation' = Some([challenge_id |-> challenge_id,
                                           solution |-> solution, is_valid |-> is_valid])
                    /\ active_challenges' =
                            IF is_valid
                            THEN [cid \in DOMAIN active_challenges \ {challenge_id} |->
                                    active_challenges[cid]]
                            ELSE active_challenges
    /\ attempted' = attempted \cup {challenge_id}
    /\ UNCHANGED <<issued, clock, outsideRegistration>>

\* validate_challenge(challenge_id, solution)
ValidateChallenge(challenge_id, solution) ==
    /\ LET challenge == IF challenge_id \in DOMAIN active_challenges
                        THEN Some(active_challenges[challenge_id]) ELSE None
       IN  IF challenge = None
           THEN /\ validation' = Some([challenge_id |-> challenge_id,
                                       solution |-> solution, is_valid |-> FALSE])
                /\ UNCHANGED active_challenges
           ELSE LET is_valid == verify_solution(challenge[1], solution)
                IN  /\ validation' = Some([challenge_id |-> challenge_id,
                                           solution |-> solution, is_valid |-> is_valid])
                    /\ active_challenges' =
                            [cid \in DOMAIN active_challenges \ {challenge_id} |->
                                active_challenges[cid]]
    /\ attempted' = attempted \cup {challenge_id}
    /\ UNCHANGED <<issued, clock, outsideRegistration>>

\* A minute passes.
Tick ==
    /\ clock < MaxClock
    /\ clock' = clock + 1
    /\ validation' = None
    /\ UNCHANGED <<active_challenges, issued, attempted, outsideRegistration>>

InitRegistration ==
    /\ active_challenges = EmptyDict
    /\ issued = 0
    /\ clock = 0
    /\ attempted = {}
    /\ validation = None

\* Challenge ids a client may send: those issued so far (an id is a SHA-256 hash
\* of the time and 16 random characters, not to be guessed before it is issued)
\* and one that is never issued.
ChallengeIds == (1..issued) \cup {MaxChallenges + 1}

NextRegistration ==
    \/ \E solution \in CaptchaSolutions : CreateChallenge(solution)
    \/ \E challenge_id \in ChallengeIds, solution \in TypedSolutions :
            ValidateChallenge(challenge_id, solution)
    \/ Tick

\* ------------------------------------------------------------------------
\* Certification progress: assignment, PPE reports, opening of the vote
\* ------------------------------------------------------------------------

\* Failure tolerance of the polls whose certification is followed: with it a
\* user with two partners may fail one PPE, a user with one partner none.
CertEtaEs == {Scale \div 2}

\* Users a client reports PPEs for.
ReportingUsers == 0..1

\* PPE ids a client may report.
PPEIds == 1..2

\* Partner ids a client may report: two users and one id that is nobody's.
ReportedPartners == {0, 1, MaxUsers}

\* A poll in registration with its registrants, none of them with a row yet.
InitCertification ==
    /\ \E sid \in Sessions, d \in ExpectedDegrees, e \in CertEtaEs :
            poll = [session_id |-> sid, expected_degree |-> d, eta_e |-> e,
                    phase |-> "registration"]
    /\ nUsers \in 0..MaxUsers
    /\ cert = [u \in 0..(nUsers - 1) |-> None]
    /\ assignments = None
    /\ calls = [c \in 1..MaxCalls |-> IdleCall]
    /\ recorded = {}
    /\ last_call = None

\* The poll's one run of assign_ppe_partners, which closes the registration.
AssignOnce ==
    /\ assignments = None
    /\ AssignPPEPartners

NextCertification ==
    \/ AssignOnce
    \/ \E user_id \in ReportingUsers, partner_id \in ReportedPartners, ppe_id \in PPEIds :
            CompletePPE(user_id, partner_id, ppe_id)
    \/ \E user_id \in ReportingUsers, ppe_id \in PPEIds : FailPPE(user_id, ppe_id)
    \/ \E poll_id \in PollIds : TransitionToVoting(poll_id)

\* ------------------------------------------------------------------------
\* Vote endpoint: concurrent cast_vote requests, each with its own session
\* ------------------------------------------------------------------------

\* Most cast_vote requests in flight.
MaxRequests == 2

\* A request not yet sent; pc is the line of vote_endpoints.py or
\* state_machine.py the request stands before, 0 before it is sent.
IdleRequest == [user_id |-> -1, pc |-> 0, response |-> None]

\* The HTTP status and the success flag of a response.
VoteResponse(status, success) == Some([status |-> status, success |-> success])

\* The rows a registrant may have when the requests arrive: none, the row after
\* the assignment of one partner, and that row after the PPE with the partner.
VoterRows ==
    LET assigned == AssignedState(None, {1}, Scale \div 8)
    IN  {None, Some(assigned), Some(add_completed_ppe(assigned, 1, 1))}

\* Users that send requests: a registrant and somebody who is not registered.
RequestUsers == {0, MaxVoters}

InitVote ==
    /\ \E phase \in {"certification", "voting"} :
            poll = [NoPoll EXCEPT !.phase = phase]
    /\ nUsers \in 1..MaxVoters
    /\ cert \in [0..(nUsers - 1) -> VoterRows]
    /\ assignments = None
    /\ calls = [c \in 1..MaxCalls |-> IdleCall]
    /\ recorded = {}
    /\ last_call = None
    /\ vote_table = <<>>
    /\ requests = [r \in 1..MaxRequests |-> IdleRequest]

\* POST /api/polls/1/vote arrives with its own database session.
SendVote(r, user_id) ==
    /\ requests[r].pc = 0
    /\ requests[r].response = None
    /\ requests' = [requests EXCEPT ![r] = [@ EXCEPT !.user_id = user_id, !.pc = 35]]
    /\ UNCHANGED <<cert, vote_table, outsideVote>>

\* cast_vote up to the call of record_vote: the eligibility check, 403 when it
\* fails, else the Vote is added to the session.
CastVoteCheck(r) ==
    /\ requests[r].pc = 35
    /\ requests' = [requests EXCEPT ![r] =
            IF can_user_vote(@.user_id, 1).can_vote
            THEN [@ EXCEPT !.pc = 239]
            ELSE [@ EXCEPT !.response = VoteResponse(403, FALSE)]]
    /\ UNCHANGED <<cert, vote_table, outsideVote>>

\* record_vote up to its commit: can_user_vote once more; when it fails the
\* endpoint rolls back and answers 500, else has_voted is set in the session.
RecordVoteCheck(r) ==
    /\ requests[r].pc = 239
    /\ requests' = [requests EXCEPT ![r] =
            IF can_user_vote(@.user_id, 1).can_vote
            THEN [@ EXCEPT !.pc = 254]
            ELSE [@ EXCEPT !.response = VoteResponse(500, FALSE)]]
    /\ UNCHANGED <<cert, vote_table, outsideVote>>

\* The commit in record_vote writes has_voted and the session's Vote row; the
\* endpoint then answers success.
RecordVoteCommit(r) ==
    /\ requests[r].pc = 254
    /\ cert' = [cert EXCEPT ![requests[r].user_id] =
                    Some([@[1] EXCEPT !.has_voted = TRUE])]
    /\ vote_table' = Append(vote_table, [user_id |-> requests[r].user_id, poll_id |-> 1])
    /\ requests' = [requests EXCEPT ![r] =
                        [@ EXCEPT !.pc = 62, !.response = VoteResponse(200, TRUE)]]
    /\ UNCHANGED outsideVote

NextVote ==
    \/ \E r \in 1..MaxRequests, user_id \in RequestUsers : SendVote(r, user_id)
    \/ \E r \in 1..MaxRequests : CastVoteCheck(r)
    \/ \E r \in 1..MaxRequests : RecordVoteCheck(r)
    \/ \E r \in 1..MaxRequests : RecordVoteCommit(r)

\* ------------------------------------------------------------------------
\* Specifications
\* ------------------------------------------------------------------------

\* No poll: the state of the assignment part while the parameter part runs.
AssignIdle ==
    /\ poll = NoPoll
    /\ nUsers = 0
    /\ cert = <<>>
    /\ assignments = None
    /\ calls = [c \in 1..MaxCalls |-> IdleCall]

\* No parameters: the state of the parameter part while the assignment part runs.
\* (InitParams is that state.)
\* Nothing generated or validated: the state of the graph utilities while another
\* part runs.
GraphIdle ==
    /\ rng = 0
    /\ draws = 0
    /\ generated = <<>>
    /\ report = None

\* No bound computed: the state of the Sybil bound part while another part runs.
SybilIdle ==
    /\ bounds = <<>>
    /\ metrics = None

\* An unused graph_service: the state of the cache while another part runs.
CacheIdle ==
    /\ graph_cache = None
    /\ properties_cache = None
    /\ threads = <<>>
    /\ observed = {}

\* No state machine call made: the state of the voting workflow while another
\* part runs.
MachineIdle ==
    /\ recorded = {}
    /\ last_call = None

\* Nothing sampled: the state of the expansion analysis while another part runs.
ExpansionIdle ==
    /\ expansion = None
    /\ spectral = None

\* A poll_service poll nobody has touched: its state while another part runs.
LegacyIdle ==
    /\ polls_db = NewPoll
    /\ poll_result = None

\* No challenge issued: the state of the registration service while another part
\* runs.
RegistrationIdle ==
    /\ active_challenges = EmptyDict
    /\ issued = 0
    /\ clock = 0
    /\ attempted = {}
    /\ validation = None

\* No vote stored and no request in flight.
VoteIdle ==
    /\ vote_table = <<>>
    /\ requests = <<>>

ParamInit ==
    InitParams /\ AssignIdle /\ GraphIdle /\ SybilIdle /\ ExpansionIdle
    /\ CacheIdle /\ MachineIdle
    /\ LegacyIdle
    /\ RegistrationIdle
    /\ VoteIdle

AssignInit ==
    InitAssign /\ InitParams /\ GraphIdle /\ SybilIdle /\ ExpansionIdle
    /\ CacheIdle /\ MachineIdle
    /\ LegacyIdle
    /\ RegistrationIdle
    /\ VoteIdle

GraphInit ==
    InitGraph /\ InitParams /\ AssignIdle /\ SybilIdle /\ ExpansionIdle
    /\ CacheIdle /\ MachineIdle
    /\ LegacyIdle
    /\ RegistrationIdle
    /\ VoteIdle

ValidationInit ==
    GraphIdle /\ InitParams /\ AssignIdle /\ SybilIdle /\ ExpansionIdle
    /\ CacheIdle /\ MachineIdle
    /\ LegacyIdle
    /\ RegistrationIdle
    /\ VoteIdle

\* No bound and no report computed yet.
SybilInit ==
    SybilIdle /\ InitParams /\ AssignIdle /\ GraphIdle /\ ExpansionIdle
    /\ CacheIdle /\ MachineIdle
    /\ LegacyIdle
    /\ RegistrationIdle
    /\ VoteIdle

\* No expansion computed yet.
ExpansionInit ==
    ExpansionIdle /\ InitParams /\ AssignIdle /\ GraphIdle /\ SybilIdle
    /\ CacheIdle /\ MachineIdle
    /\ LegacyIdle
    /\ RegistrationIdle
    /\ VoteIdle

\* A fresh graph_service in a process that has computed nothing else.
CacheInit ==
    InitCache /\ GraphIdle /\ InitParams /\ AssignIdle /\ SybilIdle /\ ExpansionIdle
    /\ MachineIdle
    /\ LegacyIdle
    /\ RegistrationIdle
    /\ VoteIdle

\* A poll from its creation on, in a process that computes nothing else.
MachineInit ==
    InitMachine /\ InitParams /\ GraphIdle /\ SybilIdle /\ ExpansionIdle
    /\ CacheIdle
    /\ LegacyIdle
    /\ RegistrationIdle
    /\ VoteIdle

\* One poll of poll_service from its creation on.
LegacyInit ==
    InitLegacy /\ InitParams /\ AssignIdle /\ GraphIdle /\ SybilIdle
    /\ ExpansionIdle /\ CacheIdle /\ MachineIdle
    /\ RegistrationIdle
    /\ VoteIdle

\* The registration service from its start on.
CertificationInit ==
    InitCertification /\ InitParams /\ GraphIdle /\ SybilIdle /\ ExpansionIdle
    /\ CacheIdle
    /\ LegacyIdle
    /\ RegistrationIdle
    /\ VoteIdle

VoteInit ==
    InitVote /\ InitParams /\ GraphIdle /\ SybilIdle /\ ExpansionIdle
    /\ CacheIdle
    /\ LegacyIdle
    /\ RegistrationIdle

RegistrationInit ==
    InitRegistration /\ InitParams /\ AssignIdle /\ GraphIdle /\ SybilIdle
    /\ ExpansionIdle /\ CacheIdle /\ MachineIdle /\ LegacyIdle
    /\ VoteIdle

\* The parameter calculator and validator.
ParamSpec == ParamInit /\ [][NextParams]_vars

\* The PPE partner assignment of one poll.
AssignSpec == AssignInit /\ [][NextAssign]_vars

\* Ideal graph generation in a process whose random module other code uses too.
GraphSpec == GraphInit /\ [][NextGraph]_vars

\* validate_graph_properties on an adjacency map a caller hands in.
ValidationSpec == ValidationInit /\ [][NextValidation]_vars

\* Sybil bounds computed on regular certification graphs.
SybilSpec == SybilInit /\ [][NextSybil]_vars

\* The expansion service's report on regular certification graphs.
MetricsSpec == SybilInit /\ [][NextMetrics]_vars

\* One expansion or spectral computation on a small graph.
ExpansionSpec == ExpansionInit /\ [][NextExpansion]_vars

\* Threads calling the graph service for one poll.
CacheSpec == CacheInit /\ [][NextCache]_vars

\* The voting workflow of one poll.
MachineSpec == MachineInit /\ [][NextMachine]_vars

CertificationSpec == CertificationInit /\ [][NextCertification]_vars

VoteSpec == VoteInit /\ [][NextVote]_vars

\* The poll service on one poll.
LegacySpec == LegacyInit /\ [][NextLegacy]_vars

\* Registration challenges created, validated and expiring.
RegistrationSpec == RegistrationInit /\ [][NextRegistration]_vars

\* ------------------------------------------------------------------------
\* Properties of the parameter validator and calculator (ParamSpec)
\* ------------------------------------------------------------------------

\* The validation result and the validated parameters, once validate_all returned.
Validated == pstate = "validated"

HasError(r, i) == \E k \in 1..Len(r.errors) : r.errors[k][1] = i

\* The participant counts the specification names for the calculator.
ListedParticipants == {20, 50, 200, 1000, 10000}

\* The check-3 denominator 2 ln(m) - 2.
Denominator3(m) == 2 * Ln(m) - Fix(2)

\* C1: for every security level and every m in {20, 50, 200, 1000, 10000}, the
\* parameters calculate_for_security_level(m, level) returns are accepted by
\* validate_all: valid is true and the error list is empty.
C1_CalculatedParametersAreValid ==
    (/\ Validated
     /\ call.op = "calculate"
     /\ call.level \in SecurityLevels
     /\ call.custom = NoCustom
     /\ call.m \in ListedParticipants)
    => (/\ ~result[1].raised
        /\ result[1].valid
        /\ result[1].errors = <<>>)

\* C2: validate_all runs all six checks on every parameter set and reports each
\* check's own verdict, whatever the other checks returned: after validate_all the
\* six flags have been set in order and flag i is what check i alone computes.
C2_AllSixChecksReported ==
    Validated =>
        (/\ ~result[1].raised
         /\ result[1].checked = <<1, 2, 3, 4, 5, 6>>
         /\ result[1].satisfied[1] = check_constraint_1(params[1]).satisfied
         /\ result[1].satisfied[2] = check_constraint_2(params[1]).satisfied
         /\ result[1].satisfied[3] = check_constraint_3(params[1]).satisfied
         /\ result[1].satisfied[4] = check_constraint_4(params[1]).satisfied
         /\ result[1].satisfied[5] = check_constraint_5(params[1]).satisfied
         /\ result[1].satisfied[6] = check_constraint_6(params[1]).satisfied)

\* C2 witness: the first check failed with an error and a later check was still
\* computed and reported satisfied, and a check after that unsatisfied.
C2_Witness ==
    /\ Validated
    /\ ~result[1].satisfied[1] /\ HasError(result[1], 1)
    /\ result[1].satisfied[3]
    /\ ~result[1].satisfied[4]
    /\ result[1].satisfied[6]

LowExpansion ==
    /\ "constraint_3_b" \in DOMAIN result[1].calculated_values
    /\ result[1].calculated_values["constraint_3_b"] <= Scale

\* C4: whenever the b computed for check 3 is <= 1 (b = 1 included), check 4 is
\* reported unsatisfied with an error, never satisfied and never skipped.
C4_LowExpansionFailsCheck4 ==
    (Validated /\ LowExpansion) =>
        (/\ \E k \in 1..Len(result[1].checked) : result[1].checked[k] = 4
         /\ ~result[1].satisfied[4]
         /\ HasError(result[1], 4))

\* C4 witness: b is exactly 1 and check 4 is reported unsatisfied with an error.
C4_Witness ==
    /\ Validated
    /\ "constraint_3_b" \in DOMAIN result[1].calculated_values
    /\ result[1].calculated_values["constraint_3_b"] = Scale
    /\ result[1].satisfied[3]
    /\ ~result[1].satisfied[4]
    /\ HasError(result[1], 4)

\* C5: for every parameter set with m <= 1 or a check-3 denominator <= 0,
\* validate_all returns normally and reports checks 3 and 4 unsatisfied, each
\* with a reason.
C5_DegenerateDenominatorReported ==
    (Validated /\ (params[1].m <= 1 \/ Denominator3(params[1].m) <= 0)) =>
        (/\ ~result[1].raised
         /\ ~result[1].satisfied[3] /\ HasError(result[1], 3)
         /\ ~result[1].satisfied[4] /\ HasError(result[1], 4))

\* C5 witness: m = 2, where m > 1 but 2 ln(m) - 2 < 0.
C5_Witness ==
    /\ Validated
    /\ params[1].m > 1
    /\ Denominator3(params[1].m) < 0
    /\ ~result[1].raised
    /\ HasError(result[1], 3) /\ HasError(result[1], 4)

\* C6: calculate_for_security_level fails, and returns no parameters, for every
\* m < 10 and for every level name other than high, medium and low, whatever the
\* other arguments are.
C6_CalculatorRejectsBadInput ==
    (call.op = "calculate" /\ (call.m < 10 \/ call.level \notin SecurityLevels)) =>
        (pstate = "failed" /\ params = None)

\* C6 witness: an unrecognised level with an acceptable m and overrides that
\* would otherwise give valid parameters.
C6_Witness ==
    /\ call.op = "calculate"
    /\ call.m >= 10
    /\ call.level \notin SecurityLevels
    /\ call.custom.d # None
    /\ pstate = "failed"

\* The constraint-5 minimum of optimize_for_user_effort: 2 ln(m) / (0.5 - eta_v).
OptimizeMinimum == Div(2 * Ln(call.m), Half - StandardEtaV)

OptimizeReturned == call.op = "optimize" /\ pstate = "built"

\* C7: for every (m, cap) optimize_for_user_effort accepts, the returned d
\* satisfies constraint 5, d >= 2 ln(m)/(0.5 - eta_v) (and check 5 of the validator
\* agrees wherever it applies, m > 1); when the cap is below that minimum, the
\* returned d is at least the minimum and not the cap.
C7_OptimizedDegreeMeetsConstraint5 ==
    OptimizeReturned =>
        (/\ params[1].d >= OptimizeMinimum
         /\ params[1].m > 1 => check_constraint_5(params[1]).satisfied
         /\ Fix(call.cap) < OptimizeMinimum => params[1].d > Fix(call.cap))

\* C7 witness: a positive cap below the constraint-5 minimum.
C7_Witness ==
    /\ OptimizeReturned
    /\ call.cap > 0
    /\ Fix(call.cap) < OptimizeMinimum
    /\ params[1].d >= OptimizeMinimum

\* C8: optimize_for_user_effort returns the smallest d that satisfies constraint
\* 5, and that d does not exceed the cap whenever the cap is at or above the
\* constraint-5 minimum.
C8_OptimizedDegreeIsSmallest ==
    OptimizeReturned =>
        (/\ params[1].d = OptimizeMinimum
         /\ Fix(call.cap) >= OptimizeMinimum => params[1].d <= Fix(call.cap))

\* ------------------------------------------------------------------------
\* Properties of the PPE partner assignment (AssignSpec)
\* ------------------------------------------------------------------------

DoneCalls == {c \in 1..MaxCalls : calls[c].status = "done"}

EdgeProbability == compute_edge_probability(poll.expected_degree, nUsers)

\* C9: for a fixed session id, edge probability and index list the assignment is
\* symmetric and irreflexive: j is in the neighborhood computed for i iff i is in
\* the one computed for j, and i is never in its own; for neighborhoods computed
\* call by call and for the map assign_ppe_partners returns.
C9_NeighborhoodsSymmetric ==
    /\ \A c1 \in DoneCalls, c2 \in DoneCalls :
            /\ calls[c2].user_index \in calls[c1].neighbors
                    <=> calls[c1].user_index \in calls[c2].neighbors
            /\ calls[c1].user_index \notin calls[c1].neighbors
    /\ assignments # None =>
            \A i \in DOMAIN assignments[1], j \in DOMAIN assignments[1] :
                /\ j \in assignments[1][i] <=> i \in assignments[1][j]
                /\ i \notin assignments[1][i]

\* C9 witness: with p < 1, two finished calls for different users that are
\* neighbors of each other, one of them with a non-neighbor as well.
C9_Witness ==
    /\ EdgeProbability < Scale
    /\ DoneCalls = 1..MaxCalls
    /\ calls[1].user_index # calls[2].user_index
    /\ calls[2].user_index \in calls[1].neighbors
    /\ calls[1].user_index \in calls[2].neighbors
    /\ Cardinality(calls[1].neighbors) < nUsers - 1

\* C10: a neighborhood depends only on (session id, p, the index, the index list):
\* computed on demand, interleaved in any order with the computations for other
\* users, it is the set the batch computes for that user.
C10_OnDemandEqualsBatch ==
    \A c \in DoneCalls :
        /\ calls[c].neighbors =
                compute_neighborhood(calls[c].user_index, IndexList(nUsers),
                                     EdgeProbability, poll.session_id)
        /\ assignments # None => calls[c].neighbors = assignments[1][calls[c].user_index]

\* C10 witness: a call finished after it ran interleaved with a call for another
\* user that has already collected a neighbor, and the batch has run too.
C10_Witness ==
    /\ assignments # None
    /\ calls[1].status = "done"
    /\ calls[2].status = "running"
    /\ calls[2].pos > 1
    /\ calls[2].user_index # calls[1].user_index
    /\ calls[2].neighbors # {}
    /\ calls[2].neighbors # calls[1].neighbors
    /\ EdgeProbability < Scale

\* ------------------------------------------------------------------------
\* Properties of the ideal graph generation (GraphSpec)
\* ------------------------------------------------------------------------

\* The degree generate_ideal_graph asks generate_random_regular_graph for.
EffectiveDegree(c) == Min(c.k, Len(c.participant_ids) - 1)

\* The call went through the except branch (configuration model).
FallbackTaken(c) ==
    /\ Len(c.participant_ids) >= 3
    /\ random_regular_graph(EffectiveDegree(c), Len(c.participant_ids),
                            generate_seed_from_poll_id(c.poll_id)).raised # ""

\* The first attempt of the exact construction failed and it was tried again.
RetryTaken(c) ==
    /\ Len(c.participant_ids) >= 3
    /\ ~FallbackTaken(c)
    /\ EffectiveDegree(c) > 0
    /\ TryCreation(Len(c.participant_ids), EffectiveDegree(c),
                   Seeded(generate_seed_from_poll_id(c.poll_id))).edges = None

RegularOfDegree(c, k) ==
    /\ c.result.raised = ""
    /\ DOMAIN c.result.graph = {c.participant_ids[i] : i \in 1..Len(c.participant_ids)}
    /\ \A u \in DOMAIN c.result.graph :
            /\ Cardinality(c.result.graph[u]) = k
            /\ u \notin c.result.graph[u]

\* m * k is even and k < m.
RegularFeasible(c) ==
    /\ (Len(c.participant_ids) * c.k) % 2 = 0
    /\ c.k < Len(c.participant_ids)

\* C12 as stated: for every participant count m and target degree k with m * k even
\* and k < m, every node of the generated graph has degree exactly k, with no
\* self-loops and no duplicate neighbors.
C12_Original ==
    \A i \in 1..Len(generated) :
        RegularFeasible(generated[i]) => RegularOfDegree(generated[i], generated[i].k)

\* C12 amended: the same for every m and 0 <= k < m with m * k even, except m = 2 with
\* k = 0, where the two participants are connected to each other all the same.
C12_RegularDegrees ==
    \A i \in 1..Len(generated) :
        (/\ RegularFeasible(generated[i])
         /\ ~(Len(generated[i].participant_ids) = 2 /\ generated[i].k = 0))
        => RegularOfDegree(generated[i], generated[i].k)

\* A 2-regular or denser graph on four or more participants whose construction had
\* to be tried again.
C12_Witness ==
    /\ generated # <<>>
    /\ Len(generated[1].participant_ids) >= 4
    /\ generated[1].k >= 2
    /\ RegularFeasible(generated[1])
    /\ RetryTaken(generated[1])
    /\ RegularOfDegree(generated[1], generated[1].k)

\* C13: generate_ideal_graph handles the degenerate sizes without raising, for
\* every k: no participant gives the empty graph, one participant gives that node
\* with no neighbors, two participants give each as the other's only neighbor.
C13_DegenerateSizes ==
    \A i \in 1..Len(generated) :
        LET c == generated[i]
            ids == c.participant_ids
        IN  /\ Len(ids) = 0 => c.result = GraphReturned(<<>>)
            /\ Len(ids) = 1 =>
                    c.result = GraphReturned([u \in {ids[1]} |-> {}])
            /\ Len(ids) = 2 =>
                    /\ c.result.raised = ""
                    /\ DOMAIN c.result.graph = {ids[1], ids[2]}
                    /\ c.result.graph[ids[1]] = {ids[2]}
                    /\ c.result.graph[ids[2]] = {ids[1]}

\* Two participants asked to have no partner at all are connected.
C13_Witness ==
    /\ generated # <<>>
    /\ Len(generated[1].participant_ids) = 2
    /\ generated[1].k = 0
    /\ generated[1].result.graph[generated[1].participant_ids[1]]
            = {generated[1].participant_ids[2]}

\* ------------------------------------------------------------------------
\* Properties of the graph validation (ValidationSpec)
\* ------------------------------------------------------------------------

\* Some node lists a neighbor that does not list it back, or that is no key.
Asymmetric(graph) ==
    \E node \in DOMAIN graph : \E neighbor \in graph[node] :
        neighbor \notin DOMAIN graph \/ node \notin graph[neighbor]

\* C14: for every adjacency map in which some node lists a neighbor that does not
\* list it back (a neighbor that is no key of the map included),
\* validate_graph_properties returns a report with is_symmetric = false and
\* is_valid = false, and does not raise.
C14_AsymmetryReported ==
    (report # None /\ Asymmetric(report[1].graph)) =>
        /\ report[1].outcome.raised = ""
        /\ ~report[1].outcome.is_symmetric
        /\ ~report[1].outcome.is_valid

\* ------------------------------------------------------------------------
\* Properties of the Sybil bound (SybilSpec) and of the report (MetricsSpec)
\* ------------------------------------------------------------------------

\* C15: in any report from compute_all_metrics the final Sybil bound is at least
\* the K of the LSE parameters, which is computed from the caller's security
\* parameter: sybil_bound.max_sybil_nodes >= lse_parameters.K for every kappa.
C15_BoundAtLeastK ==
    (metrics # None /\ metrics[1].report.raised = "") =>
        metrics[1].report.sybil_bound[1].max_sybil_nodes
            >= metrics[1].report.lse_parameters[1].K

\* The calls that returned a bound for a graph with nodes and edges.
Bounded == {i \in 1..Len(bounds) :
                /\ bounds[i].bound.raised = ""
                /\ bounds[i].m > 0 /\ bounds[i].k > 0}

\* C16: for every non-degenerate graph the resistance level is decided by
\* 100 * max_sybil_nodes / m alone: HIGH iff it is below 5, MEDIUM iff it is at
\* least 5 and below 15, LOW otherwise.
C16_LevelFromPercentage ==
    \A i \in Bounded :
        LET c == bounds[i]
            hundredfold == 100 * c.bound.max_sybil_nodes
        IN  /\ c.bound.resistance_level = "HIGH" <=> hundredfold < 5 * c.m
            /\ c.bound.resistance_level = "MEDIUM" <=>
                    (hundredfold >= 5 * c.m /\ hundredfold < 15 * c.m)
            /\ c.bound.resistance_level = "LOW" <=> hundredfold >= 15 * c.m

\* One bound of exactly 5 percent classified MEDIUM and one of exactly 15 percent
\* classified LOW.
C16_Witness ==
    /\ Len(bounds) = 2
    /\ Bounded = {1, 2}
    /\ 100 * bounds[1].bound.max_sybil_nodes = 5 * bounds[1].m
    /\ bounds[1].bound.resistance_level = "MEDIUM"
    /\ 100 * bounds[2].bound.max_sybil_nodes = 15 * bounds[2].m
    /\ bounds[2].bound.resistance_level = "LOW"

\* Two calls that differ in the attack edges at most.
SameButAttackEdges(c1, c2) ==
    /\ c1.m = c2.m /\ c1.k = c2.k
    /\ c1.eta_e = c2.eta_e /\ c1.eta_v = c2.eta_v
    /\ c1.expansion_ratio = c2.expansion_ratio

\* Two calls that differ in the degree of the graph at most.
SameButDegree(c1, c2) ==
    /\ c1.m = c2.m /\ c1.attack_edges = c2.attack_edges
    /\ c1.eta_e = c2.eta_e /\ c1.eta_v = c2.eta_v
    /\ c1.expansion_ratio = c2.expansion_ratio

\* C17: the bound is monotone in the attack edges: on one graph with the same
\* tolerances and expansion ratio, a1 <= a2 implies
\* max_sybil_nodes(a1) <= max_sybil_nodes(a2).
C17_MonotoneInAttackEdges ==
    \A i \in Bounded, j \in Bounded :
        (SameButAttackEdges(bounds[i], bounds[j])
         /\ bounds[i].attack_edges <= bounds[j].attack_edges)
        => bounds[i].bound.max_sybil_nodes <= bounds[j].bound.max_sybil_nodes

\* Two bounds from the Theorem 4.4 branch, the one for more attack edges larger.
C17_Witness ==
    /\ Bounded = {1, 2}
    /\ SameButAttackEdges(bounds[1], bounds[2])
    /\ bounds[1].m = 200 /\ bounds[1].k = 40
    /\ bounds[1].attack_edges < bounds[2].attack_edges
    /\ bounds[1].bound.max_sybil_nodes < bounds[2].bound.max_sybil_nodes

\* C18: on one graph with the default tolerances, strictly more attack edges give
\* a strictly larger max_sybil_nodes.
C18_StrictlyMoreWithAttackEdges ==
    \A i \in Bounded, j \in Bounded :
        (/\ SameButAttackEdges(bounds[i], bounds[j])
         /\ bounds[i].eta_e = StandardEtaE /\ bounds[i].eta_v = StandardEtaV
         /\ bounds[i].attack_edges < bounds[j].attack_edges)
        => bounds[i].bound.max_sybil_nodes < bounds[j].bound.max_sybil_nodes

\* C19: the bound is monotone decreasing in the average degree: with m, the attack
\* edges, the tolerances and the expansion ratio the same, d1 <= d2 implies
\* max_sybil_nodes(d1) >= max_sybil_nodes(d2), also across the switch between the
\* coarse bound and the Theorem 4.4 bound.
C19_MonotoneInDegree ==
    \A i \in Bounded, j \in Bounded :
        (SameButDegree(bounds[i], bounds[j]) /\ bounds[i].k <= bounds[j].k)
        => bounds[i].bound.max_sybil_nodes >= bounds[j].bound.max_sybil_nodes

\* The graph has no nodes or no edges.
Degenerate(c) == c.m = 0 \/ c.k = 0

\* C20 as stated: for every graph with no nodes or with average degree 0, and any
\* attack-edge count, compute_sybil_bound returns without raising a bound with
\* resistance level UNKNOWN and every metric 0.
C20_Original ==
    \A i \in 1..Len(bounds) :
        Degenerate(bounds[i]) =>
            LET b == bounds[i].bound
            IN  /\ b.raised = ""
                /\ b.resistance_level = "UNKNOWN"
                /\ b.max_sybil_nodes = 0 /\ b.sybil_percentage = 0
                /\ b.attack_edges = 0 /\ b.average_degree = 0 /\ b.honest_nodes = 0
                /\ b.expansion_factor = 0 /\ b.multiplicative_advantage = 0

\* C20 amended: the same, with every metric 0 except the multiplicative advantage,
\* which is 1.0.
C20_ZeroBound ==
    \A i \in 1..Len(bounds) :
        Degenerate(bounds[i]) =>
            LET b == bounds[i].bound
            IN  /\ b.raised = ""
                /\ b.resistance_level = "UNKNOWN"
                /\ b.max_sybil_nodes = 0 /\ b.sybil_percentage = 0
                /\ b.attack_edges = 0 /\ b.average_degree = 0 /\ b.honest_nodes = 0
                /\ b.expansion_factor = 0 /\ b.multiplicative_advantage = Fix(1)

\* A graph of three nodes without edges, attacked: the zero bound.
C20_Witness ==
    /\ bounds # <<>>
    /\ bounds[1].m = 3 /\ bounds[1].k = 0
    /\ bounds[1].attack_edges > 0
    /\ bounds[1].bound.resistance_level = "UNKNOWN"

\* C21: for every graph with m >= 1 and positive average degree, every attack-edge
\* count a >= 0 and every expansion ratio >= 0, compute_sybil_bound returns a
\* non-negative integer bound and does not raise (it takes the coarse bound
\* whenever b or the denominator cannot be used, as for m = 2).
C21_NeverRaises ==
    \A i \in 1..Len(bounds) :
        (bounds[i].m >= 1 /\ bounds[i].k > 0) =>
            /\ bounds[i].bound.raised = ""
            /\ bounds[i].bound.max_sybil_nodes >= 0

\* C22: compute_all_metrics on a graph without participants returns a report and
\* does not raise; every numeric metric of the report is zero (its Sybil bound is
\* the zero bound).
C22_EmptyGraphReport ==
    (metrics # None /\ metrics[1].graph.m = 0) =>
        LET r == metrics[1].report
        IN  /\ r.raised = ""
            /\ r.m = 0 /\ r.num_edges = 0 /\ r.n = 0 /\ r.num_deleted_nodes = 0
            /\ r.d = 0
            /\ r.sybil_bound[1].max_sybil_nodes = 0
            /\ r.sybil_bound[1].sybil_percentage = 0

\* C23: in every report n is the number of nodes that are honest and not deleted,
\* the number of deleted nodes is the number of nodes marked deleted, and n equals
\* the honest_nodes of the report's Sybil bound, whatever the nodes' flags are.
C23_HonestCounts ==
    (metrics # None /\ metrics[1].report.raised = "") =>
        LET r == metrics[1].report
            count == metrics[1].graph.count
        IN  /\ r.n = count[<<TRUE, FALSE>>]
            /\ r.num_deleted_nodes = count[<<TRUE, TRUE>>] + count[<<FALSE, TRUE>>]
            /\ r.n = r.sybil_bound[1].honest_nodes

\* ------------------------------------------------------------------------
\* Properties of the expansion sampling and the spectral gap (ExpansionSpec)
\* ------------------------------------------------------------------------

\* The upper end of the subset sizes: max(K, m/2), at most m - 1.
SizeCeiling(K, m) == Min(Max(K, m \div 2), m - 1)

\* A computation on a graph of two nodes or more, called with K >= 1.
Sampled(kind) ==
    /\ expansion # None
    /\ expansion[1].kind = kind
    /\ expansion[1].m >= 2
    /\ expansion[1].K >= 1

\* C24: every subset A drawn by compute_vertex_expansion has
\* K <= |A| <= max(K, m/2) (at most m - 1), for the K that was passed in, and so
\* the subset_size reported with the minimum ratio is not smaller than that K.
C24_VertexSubsetSizes ==
    Sampled("vertex") =>
        LET c == expansion[1]
        IN  /\ \A i \in 1..Len(c.drawn) :
                    /\ c.K <= Cardinality(c.drawn[i])
                    /\ Cardinality(c.drawn[i]) <= SizeCeiling(c.K, c.m)
            /\ c.drawn # <<>> => c.result.subset_size >= c.K

\* C25: compute_edge_expansion draws its subsets in the same sizes, K up to
\* max(K, m/2) and at most m - 1, so every sampled S is a non-empty proper subset
\* of the nodes and min(|S|, |V \ S|) is not 0.
C25_EdgeSubsetsProper ==
    Sampled("edge") =>
        LET c == expansion[1]
        IN  \A i \in 1..Len(c.drawn) :
                /\ c.K <= Cardinality(c.drawn[i])
                /\ Cardinality(c.drawn[i]) <= SizeCeiling(c.K, c.m)
                /\ c.drawn[i] # {}
                /\ c.drawn[i] # 0..(c.m - 1)

\* C27 as stated: for every graph with no node or one node, for the sparse and
\* the dense method (and whatever the threshold), compute_spectral_gap returns
\* lambda_2 = 0 with satisfies_threshold = false and does not raise.
C27_Original ==
    (spectral # None /\ spectral[1].m <= 1) =>
        /\ spectral[1].result.raised = ""
        /\ spectral[1].result.second_eigenvalue = 0
        /\ spectral[1].result.algebraic_connectivity = 0
        /\ ~spectral[1].result.satisfies_threshold

\* C27 amended: the same for every threshold above 0.
C27_DegenerateSpectralGap ==
    (spectral # None /\ spectral[1].m <= 1 /\ spectral[1].result.threshold > 0) =>
        /\ spectral[1].result.raised = ""
        /\ spectral[1].result.second_eigenvalue = 0
        /\ spectral[1].result.algebraic_connectivity = 0
        /\ ~spectral[1].result.satisfies_threshold

\* The sparse method asked for on a single node with the default threshold.
C27_Witness ==
    /\ spectral # None
    /\ spectral[1].m = 1
    /\ spectral[1].method = "sparse"
    /\ spectral[1].result.threshold = Scale \div 10
    /\ ~spectral[1].result.satisfies_threshold

\* ------------------------------------------------------------------------
\* Properties of the graph cache (CacheSpec)
\* ------------------------------------------------------------------------

\* C26: under any interleaving of get_or_generate_graph, get_graph_properties,
\* get_user_neighbors and invalidate_graph calls for one poll, no reader sees a
\* partially written entry: whenever properties are read from the cache, the
\* graph is cached too and the properties are those of that graph.
C26_NoPartialEntry ==
    \A o \in observed :
        /\ o.graph # None
        /\ o.properties = PropertiesOf(o.graph[1])

\* ------------------------------------------------------------------------
\* Properties of the voting state machine (MachineSpec)
\* ------------------------------------------------------------------------

\* The poll is in VOTING and the user has a certification state that is
\* certified, not excluded and has not voted.
Eligible(user_id, poll_id) ==
    /\ PollFound(poll_id)
    /\ poll.phase = "voting"
    /\ UserFound(user_id)
    /\ cert[user_id] # None
    /\ cert[user_id][1].is_certified
    /\ ~cert[user_id][1].is_excluded
    /\ ~cert[user_id][1].has_voted

\* The call just made is op, and it was made for this user and the stored poll.
JustCalled(op, user_id) ==
    /\ last_call' # None
    /\ last_call'[1].op = op
    /\ last_call'[1].user_id = user_id
    /\ PollFound(last_call'[1].poll_id)

\* C28: can_user_vote(user, poll) returns true if and only if the poll is in the
\* VOTING phase and the user has a certification state that is certified, not
\* excluded and has not voted; in every other phase or state it returns false
\* with a reason.
C28_CanVoteIffEligible ==
    (last_call # None /\ last_call[1].op = "can_user_vote") =>
        LET c == last_call[1]
        IN  /\ c.value.can_vote <=> Eligible(c.user_id, c.poll_id)
            /\ ~c.value.can_vote => c.value.reason # None

\* can_user_vote has just answered True for a registered user.
C28_Witness ==
    /\ last_call # None
    /\ last_call[1].op = "can_user_vote"
    /\ last_call[1].value.can_vote
    /\ UserFound(last_call[1].user_id)

\* C29 as stated: once record_vote(user, poll) has returned true, every later
\* can_user_vote(user, poll) returns false with the 'already voted' reason and
\* every later record_vote(user, poll) returns false, in any poll phase.
C29_Original ==
    [][\A user_id \in recorded :
        /\ JustCalled("can_user_vote", user_id) =>
            /\ ~last_call'[1].value.can_vote
            /\ last_call'[1].value.reason = Some(<<"Already voted">>)
        /\ JustCalled("record_vote", user_id) => ~last_call'[1].value]_vars

\* C29 amended: once record_vote(user, poll) has returned true, every later
\* can_user_vote(user, poll) returns false with a reason, which is the 'already
\* voted' reason while the poll is in VOTING and the user is certified and not
\* excluded, and every later record_vote(user, poll) returns false, in any poll
\* phase.
C29_NoSecondVote ==
    [][\A user_id \in recorded :
        /\ JustCalled("can_user_vote", user_id) =>
            /\ ~last_call'[1].value.can_vote
            /\ last_call'[1].value.reason # None
            /\ (/\ poll'.phase = "voting"
                /\ cert'[user_id][1].is_certified
                /\ ~cert'[user_id][1].is_excluded) =>
                    last_call'[1].value.reason = Some(<<"Already voted">>)
        /\ JustCalled("record_vote", user_id) => ~last_call'[1].value]_vars

\* record_vote has just refused a user whose vote it recorded before.
C29_Witness ==
    /\ last_call # None
    /\ last_call[1].op = "record_vote"
    /\ last_call[1].user_id \in recorded
    /\ PollFound(last_call[1].poll_id)
    /\ ~last_call[1].value

\* C30: transition_to_certification succeeds only from REGISTRATION and leaves
\* the poll in CERTIFICATION with one certification state per registered user;
\* transition_to_voting succeeds only from CERTIFICATION and leaves the poll in
\* VOTING; called from any other phase each raises an error and leaves the phase
\* and all certification states unchanged.
C30_GuardedTransitions ==
    [][/\ (last_call' # None /\ last_call'[1].op = "transition_to_certification") =>
            IF last_call'[1].raised = ""
            THEN /\ poll.phase = "registration"
                 /\ poll'.phase = "certification"
                 /\ DOMAIN cert' = 0..(nUsers' - 1)
                 /\ \A u \in DOMAIN cert' : cert'[u] # None
            ELSE /\ poll.phase # "registration" \/ ~PollFound(last_call'[1].poll_id)
                 /\ poll'.phase = poll.phase
                 /\ cert' = cert
       /\ (last_call' # None /\ last_call'[1].op = "transition_to_voting") =>
            IF last_call'[1].raised = ""
            THEN /\ poll.phase = "certification"
                 /\ poll'.phase = "voting"
            ELSE /\ poll.phase # "certification" \/ ~PollFound(last_call'[1].poll_id)
                 /\ poll'.phase = poll.phase
                 /\ cert' = cert]_vars

\* transition_to_certification has just returned for a poll with users, each of
\* whom now has a certification state.
C30_Witness ==
    /\ last_call # None
    /\ last_call[1].op = "transition_to_certification"
    /\ last_call[1].raised = ""
    /\ last_call[1].value = nUsers
    /\ nUsers > 0
    /\ poll.phase = "certification"

\* ------------------------------------------------------------------------
\* Properties of the poll service (LegacySpec)
\* ------------------------------------------------------------------------

\* The number of verifiers recorded for a user.
VerifierCount(p, user_id) ==
    IF user_id \in DOMAIN p.verifications
    THEN Cardinality(p.verifications[user_id].verified_by)
    ELSE 0

\* C31: record_vote stores a vote only if the voter is registered in the poll, has
\* not already voted and has at least 2 verifications; a rejected attempt (in
\* particular a second vote by the same user) raises an error and leaves the
\* poll's stored votes unchanged.
C31_VoteStoredOnlyIfAllowed ==
    [][(poll_result' # None /\ poll_result'[1].op = "record_vote") =>
        LET c == poll_result'[1]
        IN  IF c.raised = ""
            THEN /\ c.user_id \in polls_db.registrants
                 /\ c.user_id \notin DOMAIN polls_db.votes
                 /\ VerifierCount(polls_db, c.user_id) >= 2
                 /\ polls_db'.votes = Put(polls_db.votes, c.user_id, c.value)
            ELSE polls_db'.votes = polls_db.votes]_vars

\* A second vote by a user whose first vote is stored has just been refused, and
\* the stored vote is not the one offered.
C31_Witness ==
    /\ poll_result # None
    /\ poll_result[1].op = "record_vote"
    /\ poll_result[1].raised = "ValueError"
    /\ poll_result[1].user_id \in DOMAIN polls_db.votes
    /\ polls_db.votes[poll_result[1].user_id] # poll_result[1].value

\* The number of PPE certifications of a user; none without an entry.
CertificationCount(p, user_id) ==
    IF user_id \in DOMAIN p.ppe_certifications
    THEN Cardinality(p.ppe_certifications[user_id])
    ELSE 0

\* C32: verify_poll_integrity reports is_valid = false whenever some registered
\* participant has fewer than 2 PPE certifications (a registrant without any
\* certification entry included) or some recorded vote comes from a user who is
\* not allowed to vote, and is_valid = true only when neither holds.
C32_IntegrityVerdict ==
    (poll_result # None /\ poll_result[1].op = "verify_poll_integrity") =>
        (poll_result[1].value.is_valid <=>
            /\ \A u \in polls_db.registrants : CertificationCount(polls_db, u) >= 2
            /\ \A v \in DOMAIN polls_db.votes : VerifierCount(polls_db, v) >= 2)

\* ------------------------------------------------------------------------
\* Properties of the registration challenges (RegistrationSpec)
\* ------------------------------------------------------------------------

\* C33: a registration challenge is single-use: after any validate_challenge
\* attempt on a challenge id, with a correct or an incorrect solution, every later
\* validate_challenge with the same id returns false.
C33_SingleUse ==
    [][(validation' # None /\ validation'[1].challenge_id \in attempted) =>
            ~validation'[1].is_valid]_vars

\* The right solution has just been refused for a live challenge id that was
\* tried before.
C33_Witness ==
    /\ validation # None
    /\ validation[1].challenge_id \in 1..issued
    /\ validation[1].solution = "ab"
    /\ ~validation[1].is_valid
    /\ clock = 0
    /\ active_challenges = EmptyDict
    /\ issued = 1

\* ------------------------------------------------------------------------
\* Properties of the overall verdict (MetricsSpec)
\* ------------------------------------------------------------------------

\* The five component verdicts of a report, each with the text of its failure
\* reason.
ComponentVerdicts(r) ==
    {<<r.is_lse, "Graph does not satisfy LSE property">>,
     <<r.vertex_expansion.satisfies_threshold, "Vertex expansion too low">>,
     <<r.edge_expansion.satisfies_threshold, "Edge expansion too low">>,
     <<r.spectral_gap.satisfies_threshold, "Spectral gap too low">>,
     <<r.minimum_degree.satisfies_requirement, "Minimum degree too low">>}

\* C34: in every report from compute_all_metrics, verification_passed is true if
\* and only if failure_reasons is empty, and if and only if all five component
\* verdicts are true; each false verdict contributes exactly one failure reason.
C34_VerdictMatchesReasons ==
    (metrics # None /\ metrics[1].report.raised = "") =>
        LET r == metrics[1].report
            reasons(text) == {i \in DOMAIN r.failure_reasons :
                                r.failure_reasons[i][1] = text}
        IN  /\ r.verification_passed <=> r.failure_reasons = <<>>
            /\ r.verification_passed <=> \A v \in ComponentVerdicts(r) : v[1]
            /\ \A v \in ComponentVerdicts(r) :
                    Cardinality(reasons(v[2])) = IF v[1] THEN 0 ELSE 1
            /\ Len(r.failure_reasons) =
                    Cardinality({v \in ComponentVerdicts(r) : ~v[1]})

\* A report that fails on the minimum degree alone.
C34_Witness ==
    /\ metrics # None
    /\ metrics[1].report.raised = ""
    /\ ~metrics[1].report.verification_passed
    /\ Len(metrics[1].report.failure_reasons) = 1
    /\ ~metrics[1].report.minimum_degree.satisfies_requirement

\* C35: the cached path is equivalent to the uncached one: for every sequence of
\* calls, get_or_generate_graph(poll, participants, k) returns the same adjacency
\* as a fresh generate_ideal_graph(participants, poll, k), also when a graph for
\* the poll was cached earlier with another k or another order of the same
\* participants.
C35_CachedAsFresh ==
    \A t \in DOMAIN threads :
        (/\ threads[t].pc = "idle"
         /\ threads[t].participant_ids # <<>>
         /\ threads[t].raised = "") =>
            threads[t].graph =
                Some(generate_ideal_graph(threads[t].participant_ids, 1,
                                          EffectiveK(threads[t].k)).graph)


\* ------------------------------------------------------------------------
\* Certification progress
\* ------------------------------------------------------------------------

\* The rows of the poll's users.
CertRows == {u \in 0..(nUsers - 1) : cert[u] # None}

\* C36: once the partners are assigned and the poll is in VOTING, every
\* user's flags agree with the counters: is_certified is (completed_ppes >=
\* required_ppes and failed_ppes <= max_allowed_failures), is_excluded is
\* (failed_ppes > max_allowed_failures), and the two are never both true, also
\* for a user with no assigned partner.
C36_FlagsAgreeWithCounters ==
    (assignments # None /\ poll.phase = "voting") =>
        \A u \in CertRows :
            LET row == cert[u][1] IN
            /\ row.is_certified = (row.completed_ppes >= row.required_ppes
                                    /\ row.failed_ppes <= row.max_allowed_failures)
            /\ row.is_excluded = (row.failed_ppes > row.max_allowed_failures)
            /\ ~(row.is_certified /\ row.is_excluded)

\* C37: an excluded user is not certified and not in CAN_VOTE, and stays
\* excluded through every add_completed_ppe and add_failed_ppe.
C37_ExclusionIsPermanent ==
    [][\A u \in CertRows :
            cert[u][1].is_excluded =>
                /\ ~cert[u][1].is_certified
                /\ get_user_state(u, 1).state # "can_vote"
                /\ cert'[u] # None
                /\ cert'[u][1].is_excluded
                /\ ~cert'[u][1].is_certified]_vars

\* An excluded user whose completed PPEs reach the required number, in VOTING.
C37_Witness ==
    \E u \in CertRows :
        /\ cert[u][1].is_excluded
        /\ cert[u][1].required_ppes > 0
        /\ cert[u][1].completed_ppes >= cert[u][1].required_ppes
        /\ poll.phase = "voting"

\* C38: a certified user has completed a PPE with required_ppes distinct
\* partners of the assigned list, none of them the user.
C38_CertifiedByAssignedPartners ==
    \A u \in CertRows :
        LET row == cert[u][1] IN
        row.is_certified =>
            Cardinality((row.collected_signatures \cap row.assigned_ppe_partners)
                            \ {u}) >= row.required_ppes


\* ------------------------------------------------------------------------
\* Vote endpoint
\* ------------------------------------------------------------------------

\* C39: whatever the interleaving of the cast_vote requests of one user, at
\* most one Vote row of that user is stored and at most one of the requests
\* is answered with success.
C39_OneVotePerUser ==
    \A u \in RequestUsers :
        /\ Cardinality({i \in DOMAIN vote_table : vote_table[i].user_id = u}) <= 1
        /\ Cardinality({r \in DOMAIN requests :
                            /\ requests[r].user_id = u
                            /\ requests[r].response # None
                            /\ requests[r].response[1].success}) <= 1


\* ------------------------------------------------------------------------
\* LSE verification
\* ------------------------------------------------------------------------

\* C40: verify_lse_property reports is_lse only if at least one (A, B) pair
\* was tested and fewer than 5% of the tested pairs violated the property; with
\* no testable pair the graph is not reported as LSE-satisfying.
C40_LSENeedsTestedPairs ==
    (expansion # None /\ expansion[1].kind = "lse" /\ expansion[1].result.is_lse) =>
        /\ expansion[1].result.tests > 0
        /\ 20 * expansion[1].result.violations < expansion[1].result.tests

====
